---------------------------- MODULE Spec2Model ----------------------------
(***************************************************************************)
(* Request lifecycle of the "Sistema de Gestión de Solicitudes de          *)
(* Automatización" backend (src/server.py).                                *)
(*                                                                         *)
(* The state is the content of the Mongo collections the handlers touch    *)
(* (requests, ticket_status_events) plus, for every handler invocation in  *)
(* flight, the locals it keeps across its `await` points.  Every database  *)
(* call (find_one, update_one, insert_one) is one atomic step; the Python  *)
(* code between two awaits runs without interleaving (one asyncio loop)    *)
(* and is folded into the step of the database call that precedes it.      *)
(*                                                                         *)
(* Timestamps (updated_at, at, changed_at, completion_date) are written as *)
(* the token Now: the claims checked here depend on whether a date is set, *)
(* not on its value.  The last find_one of a handler only builds the       *)
(* response; it is folded into the handler's last write, which publishes   *)
(* the outcome in resp.  The client takes the response (Respond) before    *)
(* the next database step is scheduled.                                    *)
(***************************************************************************)
EXTENDS Integers, Sequences, FiniteSets, Bags

\* ------------------------------------------------------------------ bounds
\* A status change is admitted only while the ticket's state_history is
\* shorter than MaxHist (the code has no such limit).
MaxHist == 4
\* A worklog is admitted only while db.worklogs holds fewer than MaxWorklogs
\* entries (the code has no such limit).
MaxWorklogs == 2
\* The event logs the time-by-state metric is applied to hold at most
\* MaxEvents records.
MaxEvents == 3
\* The collections the KPIs are computed over hold at most MaxDocs requests,
\* those of the rework rate at most MaxReworkDocs.
MaxDocs == 3
MaxReworkDocs == 10
\* backlog_trend is called with 1..MaxDays days (the code admits 1..90).
MaxDays == 3

\* ------------------------------------------------------------- value space
\* Python None, and a key left out of a pydantic payload (exclude_unset).
NULL == "None"
UNSET == "unset"
\* Optional values that are not strings: None is <<>>, a value v is <<v>>.
None == <<>>
Some(v) == <<v>>
\* datetime.now(timezone.utc)
Now == "now"

Pendiente == "Pendiente"
EnProgreso == "En progreso"
EnRevision == "En revisión"
Finalizada == "Finalizada"
Rechazada == "Rechazada"

\* RequestStatus (pydantic Literal): the values a payload may carry.
RequestStatus == {Pendiente, EnProgreso, EnRevision, Finalizada, Rechazada}

OPEN_STATES == {Pendiente, EnProgreso, EnRevision}

VALID_STATUSES == {Pendiente, EnProgreso, EnRevision, Finalizada, Rechazada}

\* Users seeded by init_data; the user name stands for the uuid.
Users == {"admin", "soporte1", "facturacion1"}

\* An administrator created later through POST /users.
SecondAdmin == "admin2"

Role(u) ==
  CASE u \in {"admin", SecondAdmin} -> "admin"
    [] u = "soporte1" -> "support"
    [] OTHER -> "employee"

FullName(u) ==
  CASE u = "admin" -> "Administrador Sistema"
    [] u = "soporte1" -> "Juan Pérez"
    [] OTHER -> "Carlos López"

\* A user id that is in no users document.
Nobody == "nobody"

\* Text is a sequence of characters; " " is whitespace, "m" and "u" are not.
Comments == {None, Some(<<" ">>), Some(<<" ", "m", " ">>)}
Links == {None, Some(<<" ", " ">>), Some(<<"u", " ">>)}

IsSpace(ch) == ch = " "

RECURSIVE LStrip(_)
LStrip(s) == IF s # <<>> /\ IsSpace(Head(s)) THEN LStrip(Tail(s)) ELSE s

RECURSIVE RStrip(_)
RStrip(s) ==
  IF s # <<>> /\ IsSpace(s[Len(s)]) THEN RStrip(SubSeq(s, 1, Len(s) - 1)) ELSE s

\* str.lstrip() in the place of str.strip()
StripLeft(s) == LStrip(s)

\* str.strip()
Strip(s) == RStrip(LStrip(s))

\* `not x or not x.strip()` for an Optional[str] x
Blank(x) == x = None \/ x[1] = <<>> \/ Strip(x[1]) = <<>>

\* ------------------------------------------------------- transition table
\* ALLOWED_TRANSITIONS without the send-back from En revisión to En progreso.
AllowedWithoutSendBack(old) ==
  CASE old = Pendiente -> {EnProgreso, Rechazada}
    [] old = EnProgreso -> {EnRevision}
    [] old = EnRevision -> {Finalizada}
    [] old = Finalizada -> {}
    [] old = Rechazada -> {}

ALLOWED_TRANSITIONS(old) ==
  CASE old = Pendiente -> {EnProgreso, Rechazada}
    [] old = EnProgreso -> {EnRevision}
    [] old = EnRevision -> {Finalizada, EnProgreso}
    [] old = Finalizada -> {}
    [] old = Rechazada -> {}

\* ensure_transition that also admits the current status as the target.
ensure_transition_OrSame(old, new) == new = old \/ new \in ALLOWED_TRANSITIONS(old)

\* ensure_transition(old, new) does not raise
ensure_transition(old, new) == new \in ALLOWED_TRANSITIONS(old)

\* STATUS_SYNONYMS without the key "Completada".
STATUS_SYNONYMS_NoCompletada(st) ==
  CASE st \in {"Completado", "completada", "completado"} -> Finalizada
    [] st = "En Progreso" -> EnProgreso
    [] st = "En Revisión" -> EnRevision
    [] st \in {"Cancelada", "Cancelado"} -> Rechazada
    [] OTHER -> st

\* STATUS_SYNONYMS as a partial map: STATUS_SYNONYMS[st] when st is a key of
\* the table, st itself otherwise.
STATUS_SYNONYMS(st) ==
  CASE st \in {"Completada", "Completado", "completada", "completado"} -> Finalizada
    [] st = "En Progreso" -> EnProgreso
    [] st = "En Revisión" -> EnRevision
    [] st \in {"Cancelada", "Cancelado"} -> Rechazada
    [] OTHER -> st

\* _normalize_request_doc: the status a read materialises from a stored one.
\* A document without the key (UNSET) gets the default; a stored None, like
\* any unrecognised value, becomes Pendiente.
NormStatus(st) ==
  LET out == IF st = UNSET THEN Pendiente ELSE st
      syn == STATUS_SYNONYMS(out)
  IN IF syn \in VALID_STATUSES THEN syn ELSE Pendiente

\* _to_request(doc): the Request a handler works with.
ToRequest(doc) == [doc EXCEPT !.status = NormStatus(doc.status)]

\* ------------------------------------------------------------------- state
VARIABLES
  requests,   \* db.requests: ticket id -> document
  events,     \* db.ticket_status_events, in insertion order
  calls,      \* handler invocations in flight: the bag of their locals
  resp,       \* the response being returned, "none" when there is none
  worklogs,   \* db.worklogs, in insertion order
  body,       \* the body of the response of a read endpoint, None otherwise
  users       \* db.users: the ids of its documents

vars == <<requests, events, calls, resp, worklogs, body, users>>

\* db.users.find_one({"id": id}) is not None
UserExists(id) == id \in users

\* The clients whose requests may be in flight at once: one client issues
\* its calls one after the other, two clients interleave theirs.
OneClient == {"client1"}
TwoClients == {"client1", "client2"}

\* The ids create_request hands out (uuid4 in the code), and the ids a path
\* parameter may carry: MissingId is the id of no document.
TicketIds == {1}
MissingId == 2
RequestIds == TicketIds \cup {MissingId}

\* StateEvent(from_status, to_status, by_user_id)
StateEvent(from, to, by) ==
  [from_status |-> from, to_status |-> to, by_user_id |-> by]

\* A ticket_status_events document.
StatusEvent(tid, estado, by) ==
  [ticket_id |-> tid, estado |-> estado, changed_by |-> by]

\* NewRequest with a reabierto_count of 1.
NewRequestReopened(actor) ==
  [ status |-> Pendiente,
    priority |-> "Media",
    level |-> None,
    requester_id |-> actor,
    assigned_to |-> NULL,
    assigned_to_name |-> NULL,
    assigned_by_id |-> NULL,
    estimated_hours |-> None,
    completion_date |-> NULL,
    state_history |-> <<>>,
    feedback |-> None,
    rejection_reason |-> None,
    review_evidence |-> None,
    reabierto_count |-> 1 ]

\* Request(...) with the model's defaults, as create_request builds it.
NewRequest(actor) ==
  [ status |-> Pendiente,
    priority |-> "Media",
    level |-> None,
    requester_id |-> actor,
    assigned_to |-> NULL,
    assigned_to_name |-> NULL,
    assigned_by_id |-> NULL,
    estimated_hours |-> None,
    completion_date |-> NULL,
    state_history |-> <<>>,
    feedback |-> None,
    rejection_reason |-> None,
    review_evidence |-> None,
    reabierto_count |-> 0 ]

Init ==
  /\ requests = <<>>
  /\ events = <<>>
  /\ calls = EmptyBag
  /\ resp = "none"
  /\ worklogs = <<>>
  /\ body = None
  /\ users = Users

\* A handler may start: no response is pending and a client is free.
CanStart(clients) == resp = "none" /\ BagCardinality(calls) < Cardinality(clients)

\* The locals l of a call in flight move on to l2 / leave the bag.
Advance(l, l2) == (calls (-) SetToBag({l})) (+) SetToBag({l2})
Finish(l) == calls (-) SetToBag({l})

\* raise HTTPException(...): nothing was written.
Raise(err) == resp' = err /\ UNCHANGED <<requests, events, calls, worklogs, body, users>>

\* The response reaches the client.
Respond ==
  /\ resp # "none"
  /\ resp' = "none"
  /\ body' = None
  /\ UNCHANGED <<requests, events, calls, worklogs, users>>

\* ----------------------------------------------------------- create_request
\* POST /requests.  Only an admin's assigned_to is honoured; the
\* event-log insert after the first `return` is unreachable.
create_request(actor, assigned_to) ==
  /\ resp = "none"
  /\ Len(requests) < Cardinality(TicketIds)
  /\ IF Role(actor) = "admin" /\ assigned_to # NULL /\ ~UserExists(assigned_to)
     THEN Raise("BadRequest")
     ELSE LET base == NewRequest(actor)
              asg == IF Role(actor) = "admin" /\ assigned_to # NULL
                     THEN [base EXCEPT !.assigned_to = assigned_to,
                                       !.assigned_to_name = FullName(assigned_to)]
                     ELSE base
              doc == [asg EXCEPT !.state_history =
                        Append(@, StateEvent(NULL, asg.status, actor))]
          IN /\ requests' = Append(requests, doc)
             /\ resp' = "ok"
             /\ UNCHANGED <<events, calls, worklogs, body, users>>

\* -------------------------------------------------------- transition_request
\* TransitionCheck without the permission rule of En revisión.
TransitionCheckNoPermission(doc, to, actor, comment, link) ==
  LET current == ToRequest(doc)
  IN IF ~ensure_transition(current.status, to) THEN "InvalidTransition"
     ELSE IF to = Rechazada /\ Blank(comment) THEN "ValidationError"
     ELSE IF to = EnRevision /\ Blank(link) THEN "ValidationError"
     ELSE "ok"

\* The outcome of transition_request's checks on the document it read.
TransitionCheck(doc, to, actor, comment, link) ==
  LET current == ToRequest(doc)
  IN IF ~ensure_transition(current.status, to) THEN "InvalidTransition"
     ELSE IF to = Rechazada /\ Blank(comment) THEN "ValidationError"
     ELSE IF to = EnRevision /\ actor \notin {doc.assigned_to, doc.assigned_by_id}
                              /\ Role(actor) # "admin" THEN "Forbidden"
     ELSE IF to = EnRevision /\ Blank(link) THEN "ValidationError"
     ELSE "ok"

\* An update document {"$set": ..., "$push": ..., "$inc": ...} that writes
\* nothing: a key that is not written is UNSET (string fields) or has its
\* flag off (optional values).
NoOps ==
  [ status |-> UNSET,
    completion_date |-> UNSET,
    assigned_to |-> UNSET,
    assigned_to_name |-> UNSET,
    set_reason |-> FALSE,
    rejection_reason |-> None,
    set_evidence |-> FALSE,
    review_evidence |-> None,
    push |-> None,
    inc |-> 0 ]

\* TransitionOps with the new status recorded as the event's from_status.
TransitionOpsFromNew(current, to, actor, comment, link) ==
  [ NoOps EXCEPT
    !.status = to,
    !.completion_date = IF to \in {Finalizada, Rechazada} THEN Now ELSE UNSET,
    !.set_reason = (to = Rechazada),
    !.rejection_reason = IF to = Rechazada THEN Some(Strip(comment[1])) ELSE None,
    !.set_evidence = (to = EnRevision),
    !.review_evidence = IF to = EnRevision
                        THEN Some([type |-> "link", url |-> Strip(link[1]), by |-> actor])
                        ELSE None,
    !.push = Some(StateEvent(to, to, actor)),
    !.inc = IF current.status = Finalizada /\ to \in OPEN_STATES THEN 1 ELSE 0 ]

\* The update document transition_request builds before its first write.
TransitionOps(current, to, actor, comment, link) ==
  [ NoOps EXCEPT
    !.status = to,
    !.completion_date = IF to \in {Finalizada, Rechazada} THEN Now ELSE UNSET,
    !.set_reason = (to = Rechazada),
    !.rejection_reason = IF to = Rechazada THEN Some(Strip(comment[1])) ELSE None,
    !.set_evidence = (to = EnRevision),
    !.review_evidence = IF to = EnRevision
                        THEN Some([type |-> "link", url |-> Strip(link[1]), by |-> actor])
                        ELSE None,
    !.push = Some(StateEvent(current.status, to, actor)),
    !.inc = IF current.status = Finalizada /\ to \in OPEN_STATES THEN 1 ELSE 0 ]

\* update_one whose $push replaces state_history by the new event.
update_one_ReplaceHistory(doc, ops) ==
  [doc EXCEPT
     !.status = IF ops.status = UNSET THEN @ ELSE ops.status,
     !.completion_date = IF ops.completion_date = UNSET THEN @ ELSE ops.completion_date,
     !.assigned_to = IF ops.assigned_to = UNSET THEN @ ELSE ops.assigned_to,
     !.assigned_to_name = IF ops.assigned_to_name = UNSET THEN @ ELSE ops.assigned_to_name,
     !.rejection_reason = IF ops.set_reason THEN ops.rejection_reason ELSE @,
     !.review_evidence = IF ops.set_evidence THEN ops.review_evidence ELSE @,
     !.state_history = IF ops.push = None THEN @ ELSE <<ops.push[1]>>,
     !.reabierto_count = @ + ops.inc]

\* update_one that leaves state_history as it is.
update_one_NoPush(doc, ops) ==
  [doc EXCEPT
     !.status = IF ops.status = UNSET THEN @ ELSE ops.status,
     !.completion_date = IF ops.completion_date = UNSET THEN @ ELSE ops.completion_date,
     !.assigned_to = IF ops.assigned_to = UNSET THEN @ ELSE ops.assigned_to,
     !.assigned_to_name = IF ops.assigned_to_name = UNSET THEN @ ELSE ops.assigned_to_name,
     !.rejection_reason = IF ops.set_reason THEN ops.rejection_reason ELSE @,
     !.review_evidence = IF ops.set_evidence THEN ops.review_evidence ELSE @,
     !.reabierto_count = @ + ops.inc]

\* update_one that leaves review_evidence as it is.
update_one_NoEvidence(doc, ops) ==
  [doc EXCEPT
     !.status = IF ops.status = UNSET THEN @ ELSE ops.status,
     !.completion_date = IF ops.completion_date = UNSET THEN @ ELSE ops.completion_date,
     !.assigned_to = IF ops.assigned_to = UNSET THEN @ ELSE ops.assigned_to,
     !.assigned_to_name = IF ops.assigned_to_name = UNSET THEN @ ELSE ops.assigned_to_name,
     !.rejection_reason = IF ops.set_reason THEN ops.rejection_reason ELSE @,
     !.state_history = IF ops.push = None THEN @ ELSE Append(@, ops.push[1]),
     !.reabierto_count = @ + ops.inc]

\* db.requests.update_one({"id": id}, ops): the filter is the id alone, so
\* the operators apply to whatever the document holds at that moment.
update_one(doc, ops) ==
  [doc EXCEPT
     !.status = IF ops.status = UNSET THEN @ ELSE ops.status,
     !.completion_date = IF ops.completion_date = UNSET THEN @ ELSE ops.completion_date,
     !.assigned_to = IF ops.assigned_to = UNSET THEN @ ELSE ops.assigned_to,
     !.assigned_to_name = IF ops.assigned_to_name = UNSET THEN @ ELSE ops.assigned_to_name,
     !.rejection_reason = IF ops.set_reason THEN ops.rejection_reason ELSE @,
     !.review_evidence = IF ops.set_evidence THEN ops.review_evidence ELSE @,
     !.state_history = IF ops.push = None THEN @ ELSE Append(@, ops.push[1]),
     !.reabierto_count = @ + ops.inc]

\* The locals transition_request holds after its checks; seen is the length
\* of the state_history it read.
TransitionLocals(tid, doc, to, actor, comment, link) ==
  [ pc |-> "update", op |-> "transition", tid |-> tid,
    to_status |-> to, by |-> actor, seen |-> Len(doc.state_history),
    ops |-> TransitionOps(ToRequest(doc), to, actor, comment, link) ]

\* find_one, the checks, and the locals kept for the writes.
TransitionStart(clients, tid, to, actor, comment, link) ==
  /\ CanStart(clients)
  /\ IF Role(actor) \notin {"support", "admin"} THEN Raise("Forbidden")
     ELSE IF tid \notin DOMAIN requests THEN Raise("NotFound")
     ELSE LET doc == requests[tid]
              out == TransitionCheck(doc, to, actor, comment, link)
          IN IF out # "ok" THEN Raise(out)
             ELSE /\ Len(doc.state_history) < MaxHist
                  /\ calls' = calls (+)
                       SetToBag({TransitionLocals(tid, doc, to, actor, comment, link)})
                  /\ UNCHANGED <<requests, events, resp, worklogs, body, users>>

\* await db.requests.update_one({"id": request_id}, ops)
TransitionUpdate(l) ==
  /\ resp = "none"
  /\ BagIn(l, calls) /\ l.pc = "update" /\ l.op = "transition"
  /\ requests' = [requests EXCEPT ![l.tid] = update_one(@, l.ops)]
  /\ calls' = Advance(l, [l EXCEPT !.pc = "event"])
  /\ UNCHANGED <<events, resp, worklogs, body, users>>

\* await db.ticket_status_events.insert_one(...), then the response.
TransitionEvent(l) ==
  /\ resp = "none"
  /\ BagIn(l, calls) /\ l.pc = "event" /\ l.op = "transition"
  /\ events' = Append(events, StatusEvent(l.tid, l.to_status, l.by))
  /\ calls' = Finish(l)
  /\ resp' = "ok"
  /\ UNCHANGED <<requests, worklogs, body, users>>

\* ---------------------------------------------------- update_request_generic
\* PUT /requests/{id}.  update_data is the payload with exclude_unset: a key
\* sent as null is kept, with the value None.
\* Whether the status branch (validation, history, event) is taken.
GenericChangesStatus(current, status) ==
  status # UNSET /\ status # NULL /\ status # current.status

\* The update document update_request_generic builds.
GenericOps(current, status, assigned_to, actor) ==
  LET chg == GenericChangesStatus(current, status)
  IN [ NoOps EXCEPT
       !.status = status,
       !.completion_date = IF chg /\ status \in {Finalizada, Rechazada} THEN Now ELSE UNSET,
       !.push = IF chg THEN Some(StateEvent(current.status, status, actor)) ELSE None,
       !.inc = IF chg /\ current.status = Finalizada /\ status \in OPEN_STATES
               THEN 1 ELSE 0,
       !.assigned_to = assigned_to,
       !.assigned_to_name = IF assigned_to \notin {UNSET, NULL} /\ UserExists(assigned_to)
                            THEN FullName(assigned_to) ELSE UNSET ]

\* The locals update_request_generic holds after its checks: the next await
\* is the event insert when the status changes and the update otherwise.
GenericLocals(tid, doc, status, assigned_to, actor) ==
  [ pc |-> IF GenericChangesStatus(ToRequest(doc), status) THEN "event" ELSE "update",
    op |-> "generic", tid |-> tid,
    to_status |-> status, by |-> actor, seen |-> Len(doc.state_history),
    ops |-> GenericOps(ToRequest(doc), status, assigned_to, actor) ]

\* find_one and the checks.
GenericStart(clients, tid, status, assigned_to, actor) ==
  /\ CanStart(clients)
  /\ IF Role(actor) \notin {"support", "admin"} THEN Raise("Forbidden")
     ELSE IF tid \notin DOMAIN requests THEN Raise("NotFound")
     ELSE LET doc == requests[tid]
              current == ToRequest(doc)
              chg == GenericChangesStatus(current, status)
          IN IF chg /\ ~ensure_transition(current.status, status)
             THEN Raise("InvalidTransition")
             ELSE /\ chg => Len(doc.state_history) < MaxHist
                  /\ calls' = calls (+)
                       SetToBag({GenericLocals(tid, doc, status, assigned_to, actor)})
                  /\ UNCHANGED <<requests, events, resp, worklogs, body, users>>

\* GenericEvent without the insert into ticket_status_events.
GenericEventSkipped(l) ==
  /\ resp = "none"
  /\ BagIn(l, calls) /\ l.pc = "event" /\ l.op = "generic"
  /\ calls' = Advance(l, [l EXCEPT !.pc = "update"])
  /\ UNCHANGED <<requests, events, resp, worklogs, body, users>>

\* await db.ticket_status_events.insert_one(...), before the ticket update.
GenericEvent(l) ==
  /\ resp = "none"
  /\ BagIn(l, calls) /\ l.pc = "event" /\ l.op = "generic"
  /\ events' = Append(events, StatusEvent(l.tid, l.to_status, l.by))
  /\ calls' = Advance(l, [l EXCEPT !.pc = "update"])
  /\ UNCHANGED <<requests, resp, worklogs, body, users>>

\* await db.requests.update_one({"id": request_id}, ops), then the response.
GenericUpdate(l) ==
  /\ resp = "none"
  /\ BagIn(l, calls) /\ l.pc = "update" /\ l.op = "generic"
  /\ requests' = [requests EXCEPT ![l.tid] = update_one(@, l.ops)]
  /\ calls' = Finish(l)
  /\ resp' = "ok"
  /\ UNCHANGED <<events, worklogs, body, users>>

\* classify_set that also writes the status back to Pendiente.
classify_set_ResetStatus(doc, level, priority) ==
  [doc EXCEPT !.level = Some(level), !.priority = priority, !.status = Pendiente]

\* ------------------------------------------------------------ classify_request
\* {"$set": {"level": ..., "priority": ...}} applied to a document.
classify_set(doc, level, priority) ==
  [doc EXCEPT !.level = Some(level), !.priority = priority]

\* POST /requests/{id}/classify (admin): find_one and the 404 check.
ClassifyStart(clients, tid, level, priority, actor) ==
  /\ CanStart(clients)
  /\ IF Role(actor) # "admin" THEN Raise("Forbidden")
     ELSE IF tid \notin DOMAIN requests THEN Raise("NotFound")
     ELSE /\ calls' = calls (+) SetToBag({[ pc |-> "update", op |-> "classify", tid |-> tid,
                                            by |-> actor, level |-> level,
                                            priority |-> priority ]})
          /\ UNCHANGED <<requests, events, resp, worklogs, body, users>>

\* await db.requests.update_one({"id": request_id}, {"$set": update})
ClassifyUpdate(l) ==
  /\ resp = "none"
  /\ BagIn(l, calls) /\ l.pc = "update" /\ l.op = "classify"
  /\ requests' = [requests EXCEPT ![l.tid] = classify_set(@, l.level, l.priority)]
  /\ calls' = Finish(l)
  /\ resp' = "ok"
  /\ UNCHANGED <<events, worklogs, body, users>>

\* -------------------------------------------------------------- assign_request
\* payload.assigned_to or current_user.id
AssignTarget(assigned_to, actor) == IF assigned_to = NULL THEN actor ELSE assigned_to

\* assign_set that leaves estimated_hours as stored.
assign_set_KeepHours(doc, target, hours, actor) ==
  [doc EXCEPT !.assigned_to = target,
              !.assigned_to_name = FullName(target),
              !.assigned_by_id = actor]

\* {"$set": {"assigned_to": ..., "assigned_by_id": ..., ...}} applied to a document.
assign_set(doc, target, hours, actor) ==
  [doc EXCEPT !.assigned_to = target,
              !.assigned_to_name = FullName(target),
              !.estimated_hours = hours,
              !.assigned_by_id = actor]

\* POST /requests/{id}/assign (admin): find_one, the 404 check, the lookup of
\* the target user (the users collection does not change here) and its check.
AssignStart(clients, tid, assigned_to, hours, actor) ==
  /\ CanStart(clients)
  /\ IF Role(actor) # "admin" THEN Raise("Forbidden")
     ELSE IF tid \notin DOMAIN requests THEN Raise("NotFound")
     ELSE IF ~UserExists(AssignTarget(assigned_to, actor)) THEN Raise("BadRequest")
     ELSE /\ calls' = calls (+) SetToBag({[ pc |-> "update", op |-> "assign", tid |-> tid,
                                            by |-> actor,
                                            target |-> AssignTarget(assigned_to, actor),
                                            hours |-> hours ]})
          /\ UNCHANGED <<requests, events, resp, worklogs, body, users>>

\* await db.requests.update_one({"id": request_id}, {"$set": update})
AssignUpdate(l) ==
  /\ resp = "none"
  /\ BagIn(l, calls) /\ l.pc = "update" /\ l.op = "assign"
  /\ requests' = [requests EXCEPT ![l.tid] = assign_set(@, l.target, l.hours, l.by)]
  /\ calls' = Finish(l)
  /\ resp' = "ok"
  /\ UNCHANGED <<events, worklogs, body, users>>

\* -------------------------------------------------------------- submit_feedback
\* Feedback(rating, by_user_id)
Feedback(rating, by) == [rating |-> rating, by_user_id |-> by]

\* FeedbackCheck without the check of a feedback already recorded.
FeedbackCheckNoConflict(doc, actor) ==
  LET req == ToRequest(doc)
  IN IF Role(actor) # "admin" /\ req.requester_id # actor THEN "Forbidden"
     ELSE IF req.status # Finalizada THEN "InvalidState"
     ELSE "ok"

\* The outcome of submit_feedback's checks on the document it read.
FeedbackCheck(doc, actor) ==
  LET req == ToRequest(doc)
  IN IF Role(actor) # "admin" /\ req.requester_id # actor THEN "Forbidden"
     ELSE IF req.status # Finalizada THEN "InvalidState"
     ELSE IF req.feedback # None THEN "Conflict"
     ELSE "ok"

\* POST /requests/{id}/feedback (any role): find_one and the checks.
FeedbackStart(clients, tid, rating, actor) ==
  /\ CanStart(clients)
  /\ IF Role(actor) \notin {"employee", "admin", "support"} THEN Raise("Forbidden")
     ELSE IF tid \notin DOMAIN requests THEN Raise("NotFound")
     ELSE LET out == FeedbackCheck(requests[tid], actor)
          IN IF out # "ok" THEN Raise(out)
             ELSE /\ calls' = calls (+) SetToBag({[ pc |-> "update", op |-> "feedback",
                                                    tid |-> tid, by |-> actor,
                                                    fb |-> Feedback(rating, actor) ]})
                  /\ UNCHANGED <<requests, events, resp, worklogs, body, users>>

\* await db.requests.update_one({"id": request_id}, {"$set": {"feedback": fb}})
FeedbackUpdate(l) ==
  /\ resp = "none"
  /\ BagIn(l, calls) /\ l.pc = "update" /\ l.op = "feedback"
  /\ requests' = [requests EXCEPT ![l.tid] = [@ EXCEPT !.feedback = Some(l.fb)]]
  /\ calls' = Finish(l)
  /\ resp' = "ok"
  /\ UNCHANGED <<events, worklogs, body, users>>

\* ------------------------------------------------------------------ add_worklog
\* WorklogCreate that also admits horas = 0.
WorklogCreateValid_AllowZero(horas) == horas >= 0

\* WorklogCreate: horas: float = Field(gt=0)
WorklogCreateValid(horas) == horas > 0

\* The document add_worklog inserts (nota is payload.nota or "").
WorklogEntry(tid, actor, horas, nota) ==
  [ ticket_id |-> tid, user_id |-> actor, fecha |-> Now, horas |-> horas,
    nota |-> IF nota = NULL THEN "" ELSE nota ]

\* POST /requests/{id}/worklogs (support, admin): the role dependency, the
\* validation of the payload, find_one and the 404 check.
WorklogStart(clients, tid, horas, nota, actor) ==
  /\ CanStart(clients)
  /\ IF Role(actor) \notin {"support", "admin"} THEN Raise("Forbidden")
     ELSE IF ~WorklogCreateValid(horas) THEN Raise("ValidationError")
     ELSE IF tid \notin DOMAIN requests THEN Raise("NotFound")
     ELSE /\ Len(worklogs) < MaxWorklogs
          /\ calls' = calls (+) SetToBag({[ pc |-> "insert", op |-> "worklog", tid |-> tid,
                                            by |-> actor, horas |-> horas, nota |-> nota ]})
          /\ UNCHANGED <<requests, events, resp, worklogs, body, users>>

\* await db.worklogs.insert_one({...}); return {"ok": True}
WorklogInsert(l) ==
  /\ resp = "none"
  /\ BagIn(l, calls) /\ l.pc = "insert" /\ l.op = "worklog"
  /\ worklogs' = Append(worklogs, WorklogEntry(l.tid, l.by, l.horas, l.nota))
  /\ calls' = Finish(l)
  /\ resp' = "ok"
  /\ UNCHANGED <<requests, events, body, users>>

\* ------------------------------------------------------------------ delete_user
\* raise HTTPException(...) after an await: the call l ends, nothing is written.
RaiseFrom(l, err) ==
  /\ resp' = err
  /\ calls' = Finish(l)
  /\ UNCHANGED <<requests, events, worklogs, body, users>>

\* DELETE /users/{user_id} (admin): get_current_user and require_role, the
\* check against deleting oneself, find_one and the 404 check. The next await
\* is the count of admins when the target is one, the count of tickets
\* otherwise.
DeleteUserStart(clients, user_id, actor) ==
  /\ CanStart(clients)
  /\ IF actor \notin users THEN Raise("Unauthorized")
     ELSE IF Role(actor) # "admin" THEN Raise("Forbidden")
     ELSE IF user_id = actor THEN Raise("BadRequest")
     ELSE IF user_id \notin users THEN Raise("NotFound")
     ELSE /\ calls' = calls (+) SetToBag({[
                 pc |-> IF Role(user_id) = "admin" THEN "count_admins" ELSE "count_open",
                 op |-> "delete_user", user_id |-> user_id, by |-> actor ]})
          /\ UNCHANGED <<requests, events, resp, worklogs, body, users>>

\* admins = await db.users.count_documents({"role": "admin"})
DeleteUserCountAdmins(l) ==
  /\ resp = "none"
  /\ BagIn(l, calls) /\ l.pc = "count_admins" /\ l.op = "delete_user"
  /\ IF Cardinality({u \in users : Role(u) = "admin"}) <= 1
     THEN RaiseFrom(l, "BadRequest")
     ELSE /\ calls' = Advance(l, [l EXCEPT !.pc = "count_open"])
          /\ UNCHANGED <<requests, events, resp, worklogs, body, users>>

\* open_assigned = await db.requests.count_documents({"assigned_to": user_id,
\* "status": {"$in": list(OPEN_STATES)}})
DeleteUserCountOpen(l) ==
  /\ resp = "none"
  /\ BagIn(l, calls) /\ l.pc = "count_open" /\ l.op = "delete_user"
  /\ IF \E tid \in DOMAIN requests :
          /\ requests[tid].assigned_to = l.user_id
          /\ requests[tid].status \in OPEN_STATES
     THEN RaiseFrom(l, "BadRequest")
     ELSE /\ calls' = Advance(l, [l EXCEPT !.pc = "delete"])
          /\ UNCHANGED <<requests, events, resp, worklogs, body, users>>

\* await db.users.delete_one({"id": user_id})
DeleteUserDelete(l) ==
  /\ resp = "none"
  /\ BagIn(l, calls) /\ l.pc = "delete" /\ l.op = "delete_user"
  /\ users' = users \ {l.user_id}
  /\ calls' = Finish(l)
  /\ resp' = "ok"
  /\ UNCHANGED <<requests, events, worklogs, body>>

\* ------------------------------------------------------------ payloads drawn
\* (actor, assigned_to) of a create_request call.
CreateInputs == {<<"facturacion1", NULL>>, <<"admin", "soporte1">>, <<"admin", Nobody, users>>}

\* Callers of a status change: the admin is drawn for the one target whose
\* checks read the role (En revisión).
StatusActors(to) == IF to = EnRevision THEN Users ELSE {"soporte1", "facturacion1"}

StatusInputs == {UNSET, NULL} \cup RequestStatus
AssigneeInputs == {UNSET, "soporte1"}

\* (level, priority) of a classify call; (assigned_to, estimated_hours) of an
\* assign call; the rating of a feedback.
ClassifyInputs == {<<1, "Alta">>, <<2, "Baja">>}
AssignInputs == {<<NULL, None>>, <<"soporte1", Some(8)>>, <<Nobody, None>>}
AdminActors == {"admin", "soporte1"}
Ratings == {"up", "down"}

\* The calls in flight.
InFlight == BagToSet(calls)

Next ==
  \/ \E in \in CreateInputs : create_request(in[1], in[2])
  \/ \E tid \in RequestIds, to \in RequestStatus, comment \in Comments, link \in Links :
       \E actor \in StatusActors(to) :
          TransitionStart(OneClient, tid, to, actor, comment, link)
  \/ \E l \in InFlight : TransitionUpdate(l)
  \/ \E l \in InFlight : TransitionEvent(l)
  \/ \E tid \in RequestIds, status \in StatusInputs, assigned_to \in AssigneeInputs :
       \E actor \in StatusActors(status) :
          GenericStart(OneClient, tid, status, assigned_to, actor)
  \/ \E l \in InFlight : GenericEvent(l)
  \/ \E l \in InFlight : GenericUpdate(l)
  \/ Respond

\* One client: every handler runs to its end before the next one starts.
Spec == Init /\ [][Next]_vars

\* Payloads of the interleaved runs: calls that pass their checks.
RaceComments == {Some(<<" ", "m", " ">>)}
RaceLinks == {Some(<<"u", " ">>)}
RaceStatusInputs == {NULL} \cup RequestStatus

NextRace ==
  \/ create_request("facturacion1", NULL)
  \/ \E tid \in TicketIds, to \in RequestStatus, comment \in RaceComments,
        link \in RaceLinks :
          TransitionStart(TwoClients, tid, to, "admin", comment, link)
  \/ \E l \in InFlight : TransitionUpdate(l)
  \/ \E l \in InFlight : TransitionEvent(l)
  \/ \E tid \in TicketIds, status \in RaceStatusInputs :
          GenericStart(TwoClients, tid, status, UNSET, "admin")
  \/ \E l \in InFlight : GenericEvent(l)
  \/ \E l \in InFlight : GenericUpdate(l)
  \/ Respond

\* Two clients: the database calls of two handlers interleave.
SpecRace == Init /\ [][NextRace]_vars

\* Two clients sending feedback on a ticket an admin moves through its states.
NextFeedbackRace ==
  \/ create_request("facturacion1", NULL)
  \/ \E tid \in TicketIds, to \in RequestStatus, comment \in RaceComments,
        link \in RaceLinks :
          TransitionStart(TwoClients, tid, to, "admin", comment, link)
  \/ \E l \in InFlight : TransitionUpdate(l)
  \/ \E l \in InFlight : TransitionEvent(l)
  \/ \E tid \in TicketIds, rating \in Ratings, actor \in {"admin", "facturacion1"} :
          FeedbackStart(TwoClients, tid, rating, actor)
  \/ \E l \in InFlight : FeedbackUpdate(l)
  \/ Respond

SpecFeedbackRace == Init /\ [][NextFeedbackRace]_vars

\* (actor, assigned_to) of a create_request call, for each role.
OpsCreateInputs == CreateInputs \cup {<<"soporte1", "soporte1">>}

\* Two clients: classify calls interleaved with an admin's transitions.
NextClassifyRace ==
  \/ create_request("facturacion1", NULL)
  \/ \E tid \in TicketIds, to \in RequestStatus, comment \in RaceComments,
        link \in RaceLinks :
          TransitionStart(TwoClients, tid, to, "admin", comment, link)
  \/ \E l \in InFlight : TransitionUpdate(l)
  \/ \E l \in InFlight : TransitionEvent(l)
  \/ \E tid \in RequestIds, in \in ClassifyInputs, actor \in AdminActors :
          ClassifyStart(TwoClients, tid, in[1], in[2], actor)
  \/ \E l \in InFlight : ClassifyUpdate(l)
  \/ Respond

SpecClassifyRace == Init /\ [][NextClassifyRace]_vars

\* -------------------------------------------------- documents of older data
\* The status values db.requests may hold: the five statuses, the keys of
\* STATUS_SYNONYMS, None, no status key at all, and two values of no table.
StoredStatuses ==
  VALID_STATUSES
    \cup {"Completada", "Completado", "completada", "completado",
          "En Progreso", "En Revisión", "Cancelada", "Cancelado"}
    \cup {NULL, UNSET, "pendiente", "Cerrada"}

\* A document written under an older status vocabulary: a closed one carries
\* its completion_date.
StoredDoc(st, assignee) ==
  [NewRequest("facturacion1") EXCEPT
     !.status = st,
     !.assigned_to = assignee,
     !.assigned_to_name = IF assignee = NULL THEN NULL ELSE FullName(assignee),
     !.completion_date = IF NormStatus(st) \in {Finalizada, Rechazada}
                         THEN Now ELSE NULL]

\* db.requests holds one such document that migrate_requests_schema has not
\* rewritten (restore_request inserts the trashed document as it was stored).
InitLegacy ==
  /\ \E st \in StoredStatuses, assignee \in {NULL, "soporte1"} :
       requests = <<StoredDoc(st, assignee)>>
  /\ events = <<>>
  /\ calls = EmptyBag
  /\ resp = "none"
  /\ worklogs = <<>>
  /\ body = None
  /\ users = Users

\* {"$gte": start, "$lte": end} for the period of the call, which ends at the
\* time of the call: it holds every time the model has written.
InPeriod(t) == t = Now

\* count_documents(filt) over db.requests, filt given as the function that
\* tells for each ticket id whether its document matches.
CountRequests(filt) == Cardinality({tid \in DOMAIN requests : filt[tid]})

\* GET /requests?status=...: the filter is built from the query, the page is
\* materialised with _to_request (the only ticket fits the first page).
get_requests(status, actor) ==
  /\ CanStart(OneClient)
  /\ LET filt(doc) == /\ Role(actor) = "employee" => doc.requester_id = actor
                      /\ status # NULL => doc.status = status
         ids == {tid \in DOMAIN requests : filt(requests[tid])}
     IN body' = Some([ op |-> "list", status |-> status, by |-> actor,
                       total |-> CountRequests([t \in DOMAIN requests |-> filt(requests[t])]),
                       items |-> [tid \in ids |-> ToRequest(requests[tid])] ])
  /\ resp' = "ok"
  /\ UNCHANGED <<requests, events, calls, worklogs, users>>

\* _summary_payload: the counts that depend on the status and the assignee
\* (new, avg_cycle_hours and new_last_24h are functions of the dates alone);
\* productivity_by_tech is keyed by technician.
SummaryPayload ==
  LET finished_q(doc) == doc.status = Finalizada /\ InPeriod(doc.completion_date)
      open_q(doc) == doc.status \in OPEN_STATES
      assigned_q(doc) == doc.assigned_to # NULL
      techs == {requests[tid].assigned_to :
                  tid \in {t \in DOMAIN requests : assigned_q(requests[t])}}
      of(k, q(_)) ==
        Cardinality({tid \in DOMAIN requests :
                       requests[tid].assigned_to = k /\ q(requests[tid])})
  IN [ op |-> "summary",
       finished |-> CountRequests([t \in DOMAIN requests |-> finished_q(requests[t])]),
       pending_now |-> CountRequests([t \in DOMAIN requests |-> open_q(requests[t])]),
       total_requests |-> Cardinality(DOMAIN requests),
       assigned_total |-> CountRequests([t \in DOMAIN requests |-> assigned_q(requests[t])]),
       productivity_by_tech |->
         [k \in techs |-> [ assigned_total |-> of(k, assigned_q),
                            pending_now |-> of(k, open_q),
                            attended_period |-> of(k, finished_q) ]] ]

\* GET /reports/summary (support, admin)
reports_summary(actor) ==
  /\ CanStart(OneClient)
  /\ IF Role(actor) \notin {"support", "admin"} THEN Raise("Forbidden")
     ELSE /\ body' = Some(SummaryPayload)
          /\ resp' = "ok"
          /\ UNCHANGED <<requests, events, calls, worklogs, users>>

ListFilters == {NULL} \cup RequestStatus

\* One client reads and changes a ticket stored under any vocabulary.
NextLegacy ==
  \/ \E tid \in TicketIds, to \in RequestStatus, comment \in RaceComments,
        link \in RaceLinks :
          TransitionStart(OneClient, tid, to, "admin", comment, link)
  \/ \E l \in InFlight : TransitionUpdate(l)
  \/ \E l \in InFlight : TransitionEvent(l)
  \/ \E tid \in TicketIds, status \in RequestStatus :
          GenericStart(OneClient, tid, status, UNSET, "soporte1")
  \/ \E l \in InFlight : GenericEvent(l)
  \/ \E l \in InFlight : GenericUpdate(l)
  \/ \E tid \in TicketIds, rating \in Ratings, actor \in Users :
          FeedbackStart(OneClient, tid, rating, actor)
  \/ \E l \in InFlight : FeedbackUpdate(l)
  \/ \E status \in ListFilters, actor \in Users : get_requests(status, actor)
  \/ \E actor \in Users : reports_summary(actor)
  \/ Respond

SpecLegacy == InitLegacy /\ [][NextLegacy]_vars

\* (horas, nota) of an add_worklog call.
WorklogInputs == {<<-1, NULL>>, <<0, "n">>, <<2, NULL>>, <<3, "n">>}

\* One client records worklogs next to an admin's transitions.
NextWorklog ==
  \/ create_request("facturacion1", NULL)
  \/ \E tid \in TicketIds, to \in RequestStatus, comment \in RaceComments,
        link \in RaceLinks :
          TransitionStart(OneClient, tid, to, "admin", comment, link)
  \/ \E l \in InFlight : TransitionUpdate(l)
  \/ \E l \in InFlight : TransitionEvent(l)
  \/ \E tid \in RequestIds, in \in WorklogInputs, actor \in Users :
          WorklogStart(OneClient, tid, in[1], in[2], actor)
  \/ \E l \in InFlight : WorklogInsert(l)
  \/ Respond

SpecWorklog == Init /\ [][NextWorklog]_vars

\* ------------------------------------------------------ metrics_time_by_state
\* Datetimes of the metrics are counted in quarters of an hour, reported
\* hours in tenths of an hour.

\* round(v, 1) of v = q/4 hours, in tenths: quarters are exact binary floats,
\* so a tie (q odd) goes to the even tenth.
Round1Quarters(q) ==
  LET n == 5 * q
      k == n \div 2
  IN IF n % 2 = 0 THEN k ELSE IF k % 2 = 0 THEN k ELSE k + 1

\* A ticket_status_events document with its timestamp.
TimedEvent(tid, estado, t) == [ticket_id |-> tid, estado |-> estado, changed_at |-> t]

EventTickets == {1, 2}
EventStates == {Pendiente, EnProgreso, Finalizada}
EventTimes == {0, 8, 20, 21}
WindowEnds == {20, 28}

\* The event logs of n records, inserted as the clock advances.
EventLogs(n) ==
  {log \in [1..n -> {TimedEvent(tid, st, t) :
                       tid \in EventTickets, st \in EventStates, t \in EventTimes}] :
     \A i \in 1..(n - 1) : log[i].changed_at <= log[i + 1].changed_at}

InitTimeByState ==
  /\ requests = <<>>
  /\ events \in UNION {EventLogs(n) : n \in 0..MaxEvents}
  /\ calls = EmptyBag
  /\ resp = "none"
  /\ worklogs = <<>>
  /\ body = None
  /\ users = Users

\* find({"ticket_id": {"$in": ticket_ids}}) with ticket_ids the distinct
\* ticket_id of the records with changed_at <= end: the positions selected.
EventsSelected(end) ==
  LET ticket_ids == {events[i].ticket_id :
                       i \in {j \in DOMAIN events : events[j].changed_at <= end}}
  IN {i \in DOMAIN events : events[i].ticket_id \in ticket_ids}

\* .sort([("ticket_id", 1), ("changed_at", 1)]): the orders the cursor may
\* return the selected records in (records with equal keys in any order).
EventsSorted(idx) ==
  LET n == Cardinality(idx)
      before(a, b) == \/ events[a].ticket_id < events[b].ticket_id
                      \/ /\ events[a].ticket_id = events[b].ticket_id
                         /\ events[a].changed_at <= events[b].changed_at
  IN {[k \in 1..n |-> events[o[k]]] :
        o \in {f \in [1..n -> idx] :
                 /\ \A a, b \in 1..n : a # b => f[a] # f[b]
                 /\ \A a \in 1..(n - 1) : before(f[a], f[a + 1])}}

\* The state a positive interval is added to: state_time[prev_state] += delta_h
\* (SegmentState_New adds it to the state of the record that ends it).
SegmentState_New(prev_state, st) == st
SegmentState(prev_state, st) == prev_state

\* The loop over the sorted records: last maps a ticket to (estado, changed_at)
\* of its latest record, state_time a state to its quarters.
RECURSIVE TimeWalk(_, _, _)
TimeWalk(evs, last, state_time) ==
  IF evs = <<>> THEN [last |-> last, state_time |-> state_time]
  ELSE LET ev == Head(evs)
           tid == ev.ticket_id
           seen == tid \in DOMAIN last
           delta == IF seen THEN ev.changed_at - last[tid][2] ELSE 0
           to == IF seen THEN SegmentState(last[tid][1], ev.estado) ELSE ev.estado
           added == IF seen /\ delta > 0
                    THEN [state_time EXCEPT ![to] = @ + delta]
                    ELSE state_time
           last2 == [x \in DOMAIN last \cup {tid} |->
                       IF x = tid THEN <<ev.estado, ev.changed_at>> ELSE last[x]]
       IN TimeWalk(Tail(evs), last2, added)

\* sum of f over S
RECURSIVE SumOf(_, _)
SumOf(f, S) ==
  IF S = {} THEN 0
  ELSE LET x == CHOOSE y \in S : TRUE IN f[x] + SumOf(f, S \ {x})

\* The last segment of every ticket up to end, then the rounding; a state has
\* a key when something was added to it.
HoursByState(evs, end) ==
  LET w == TimeWalk(evs, <<>>, [st \in EventStates |-> 0])
      tail == [tid \in DOMAIN w.last |->
                 IF end - w.last[tid][2] > 0 THEN end - w.last[tid][2] ELSE 0]
      total == [st \in EventStates |->
                  w.state_time[st]
                    + SumOf(tail, {tid \in DOMAIN w.last : w.last[tid][1] = st})]
  IN [st \in {x \in EventStates : total[x] > 0} |-> Round1Quarters(total[st])]

\* GET /metrics/time-by-state?date_from=..&date_to=end (support, admin)
metrics_time_by_state(end, actor) ==
  /\ CanStart(OneClient)
  /\ IF Role(actor) \notin {"support", "admin"} THEN Raise("Forbidden")
     ELSE /\ \E evs \in EventsSorted(EventsSelected(end)) :
               body' = Some([ op |-> "time_by_state", to |-> end,
                              hours_by_state |-> HoursByState(evs, end) ])
          /\ resp' = "ok"
          /\ UNCHANGED <<requests, events, calls, worklogs, users>>

NextTimeByState ==
  \/ \E end \in WindowEnds, actor \in Users : metrics_time_by_state(end, actor)
  \/ Respond

SpecTimeByState == InitTimeByState /\ [][NextTimeByState]_vars

\* ---------------------------------------------- metrics_kpis, metrics_rework
\* The fields of a request the metrics read; datetimes count hours.
MetricDoc(created, requested, completion, status, reabierto) ==
  [ created_at |-> created, requested_at |-> requested, completion_date |-> completion,
    status |-> status, reabierto_count |-> reabierto ]

\* Requests created at 0h or 4h: open ones (one of them with a requested_at
\* given by its requester), and ones closed 2h or 4h after their creation.
MetricDocs ==
  {MetricDoc(c, c, None, Pendiente, 0) : c \in {0, 4}}
    \cup {MetricDoc(0, 4, None, EnProgreso, 0)}
    \cup {MetricDoc(c, c, Some(c + d), Finalizada, n) : c \in {0, 4}, d \in {2, 4}, n \in {0, 1}}
    \cup {MetricDoc(c, c, Some(c + d), Rechazada, 0) : c \in {0, 4}, d \in {2, 4}}

\* (date_from, date_to) of a metrics call: _resolve_range returns them as given.
MetricWindows == {<<0, 4>>, <<4, 8>>}

InitKpis ==
  /\ requests \in UNION {[1..n -> MetricDocs] : n \in 0..MaxDocs}
  /\ events = <<>>
  /\ calls = EmptyBag
  /\ resp = "none"
  /\ worklogs = <<>>
  /\ body = None
  /\ users = Users

\* {"$gte": start, "$lte": end} on an optional datetime field.
GteLte(t, start, end) == t # None /\ start <= t[1] /\ t[1] <= end

\* round(num / den, 1) in tenths, for num >= 0: a tie goes to the even tenth.
Round1Ratio(num, den) ==
  LET k == (10 * num) \div den
      r == (10 * num) % den
  IN IF 2 * r < den THEN k
     ELSE IF 2 * r > den THEN k + 1
     ELSE IF k % 2 = 0 THEN k ELSE k + 1

\* The $match/$project/$group pipeline of metrics_kpis and the rounding:
\* the average of (completion_date - created_at) in hours, in tenths.
TtrPromedio(start, end) ==
  LET cerrados == {tid \in DOMAIN requests :
                     GteLte(requests[tid].completion_date, start, end)}
      ttr_h == [tid \in cerrados |->
                  requests[tid].completion_date[1] - requests[tid].created_at]
  IN IF cerrados = {} THEN 0
     ELSE Round1Ratio(SumOf(ttr_h, cerrados), Cardinality(cerrados))

\* The payload of metrics_kpis for the range (start, end).
KpisPayload(start, end) ==
  LET recibidos(doc) == GteLte(Some(doc.requested_at), start, end)
      resueltos(doc) == GteLte(doc.completion_date, start, end)
      backlog(doc) == doc.status \in OPEN_STATES
  IN [ op |-> "kpis", from |-> start, to |-> end,
       recibidos |-> CountRequests([t \in DOMAIN requests |-> recibidos(requests[t])]),
       resueltos |-> CountRequests([t \in DOMAIN requests |-> resueltos(requests[t])]),
       backlog |-> CountRequests([t \in DOMAIN requests |-> backlog(requests[t])]),
       ttr_promedio |-> TtrPromedio(start, end),
       activos |-> CountRequests([t \in DOMAIN requests |-> backlog(requests[t])]) ]

\* GET /metrics/kpis?date_from=start&date_to=end (support, admin)
metrics_kpis(start, end, actor) ==
  /\ CanStart(OneClient)
  /\ IF Role(actor) \notin {"support", "admin"} THEN Raise("Forbidden")
     ELSE /\ body' = Some(KpisPayload(start, end))
          /\ resp' = "ok"
          /\ UNCHANGED <<requests, events, calls, worklogs, users>>

NextKpis ==
  \/ \E w \in MetricWindows, actor \in Users : metrics_kpis(w[1], w[2], actor)
  \/ Respond

SpecKpis == InitKpis /\ [][NextKpis]_vars

\* Requests by (requested_at, reabierto_count): a of (0, 0), b of (0, 1),
\* c of (4, 0) and d of (6, 1), in the order of their creation.
ReworkDocs(a, b, c, d) ==
  [i \in 1..(a + b + c + d) |->
     IF i <= a THEN MetricDoc(0, 0, None, Pendiente, 0)
     ELSE IF i <= a + b THEN MetricDoc(0, 0, None, EnProgreso, 1)
     ELSE IF i <= a + b + c THEN MetricDoc(4, 4, None, Pendiente, 0)
     ELSE MetricDoc(6, 6, None, EnProgreso, 1)]

ReworkWindows == {<<0, 4>>, <<0, 5>>, <<7, 8>>}

InitRework ==
  /\ \E a, b, c, d \in 0..MaxReworkDocs :
       /\ a + b + c + d <= MaxReworkDocs
       /\ requests = ReworkDocs(a, b, c, d)
  /\ events = <<>>
  /\ calls = EmptyBag
  /\ resp = "none"
  /\ worklogs = <<>>
  /\ body = None
  /\ users = Users

\* The percentage of the $project stage, kept exact: <<n, d>> stands for the
\* quotient n / d.
ReworkPct(con_retrabajo, total) ==
  IF total > 0 THEN <<100 * con_retrabajo, total>> ELSE <<0, 1>>

\* GET /metrics/rework?date_from=start&date_to=end (support, admin)
metrics_rework(start, end, actor) ==
  /\ CanStart(OneClient)
  /\ IF Role(actor) \notin {"support", "admin"} THEN Raise("Forbidden")
     ELSE LET matched(doc) == GteLte(Some(doc.requested_at), start, end)
              reworked(doc) == matched(doc) /\ doc.reabierto_count > 0
              total == CountRequests([t \in DOMAIN requests |-> matched(requests[t])])
              con_retrabajo == CountRequests([t \in DOMAIN requests |-> reworked(requests[t])])
          IN /\ body' = Some([ op |-> "rework", from |-> start, to |-> end,
                               total |-> total, con_retrabajo |-> con_retrabajo,
                               pct |-> ReworkPct(con_retrabajo, total) ])
             /\ resp' = "ok"
             /\ UNCHANGED <<requests, events, calls, worklogs, users>>

NextRework ==
  \/ \E w \in ReworkWindows, actor \in Users : metrics_rework(w[1], w[2], actor)
  \/ Respond

SpecRework == InitRework /\ [][NextRework]_vars

\* ----------------------------------------------------------- users deleted
\* The seeded users and a second administrator.
InitUsers ==
  /\ requests = <<>>
  /\ events = <<>>
  /\ calls = EmptyBag
  /\ resp = "none"
  /\ worklogs = <<>>
  /\ body = None
  /\ users = Users \cup {SecondAdmin}

\* Two clients delete users next to the creation of tickets.
NextUsers ==
  \/ \E in \in {<<"facturacion1", NULL>>, <<"admin", "soporte1">>} :
          create_request(in[1], in[2])
  \/ \E user_id \in Users \cup {SecondAdmin, Nobody}, actor \in Users \cup {SecondAdmin} :
          DeleteUserStart(TwoClients, user_id, actor)
  \/ \E l \in InFlight : DeleteUserCountAdmins(l)
  \/ \E l \in InFlight : DeleteUserCountOpen(l)
  \/ \E l \in InFlight : DeleteUserDelete(l)
  \/ Respond

SpecUsers == InitUsers /\ [][NextUsers]_vars

\* -------------------------------------------------------------- backlog_trend
\* timedelta(days=1), in hours.
DayHours == 24

\* t.replace(hour=0, minute=0, second=0, microsecond=0)
Midnight(t) == t - (t % DayHours)

\* Requests created on day 0 (at 0h), day 1 (at 30h) and day 2 (at 50h), one
\* of them dated by its requester to an earlier day, some of them closed by 60h.
TrendDocs ==
  {MetricDoc(c, c, None, Pendiente, 0) : c \in {0, 30, 50}}
    \cup {MetricDoc(30, 0, None, Pendiente, 0)}
    \cup {MetricDoc(0, 0, Some(cd), Finalizada, 0) : cd \in {4, 30, 50}}
    \cup {MetricDoc(30, 30, Some(50), Rechazada, 0)}

\* datetime.now(timezone.utc) of a backlog_trend call.
TrendNows == {60}

InitTrend ==
  /\ requests \in UNION {[1..n -> TrendDocs] : n \in 0..MaxDocs}
  /\ events = <<>>
  /\ calls = EmptyBag
  /\ resp = "none"
  /\ worklogs = <<>>
  /\ body = None
  /\ users = Users

\* {"$gte": d0, "$lt": d1} on an optional datetime field.
GteLt(t, d0, d1) == t # None /\ d0 <= t[1] /\ t[1] < d1

\* backlog = max(acc_new - acc_closed, 0)
TrendBacklog(acc_new, acc_closed) ==
  IF acc_new - acc_closed > 0 THEN acc_new - acc_closed ELSE 0

\* The loop of backlog_trend from day i on, with the sums so far.
RECURSIVE TrendRows(_, _, _, _, _)
TrendRows(i, days, start_day, acc_new, acc_closed) ==
  IF i >= days THEN <<>>
  ELSE LET d0 == start_day + DayHours * i
           d1 == d0 + DayHours
           new_d == CountRequests([t \in DOMAIN requests |->
                                     GteLt(Some(requests[t].requested_at), d0, d1)])
           closed_d == CountRequests([t \in DOMAIN requests |->
                                        GteLt(requests[t].completion_date, d0, d1)])
           row == [ date |-> d0, new |-> new_d, closed |-> closed_d,
                    backlog |-> TrendBacklog(acc_new + new_d, acc_closed + closed_d) ]
       IN <<row>> \o TrendRows(i + 1, days, start_day, acc_new + new_d, acc_closed + closed_d)

\* GET /metrics/backlog-trend?days=.. (support, admin), called at time now
backlog_trend(days, now, actor) ==
  /\ CanStart(OneClient)
  /\ IF Role(actor) \notin {"support", "admin"} THEN Raise("Forbidden")
     ELSE LET end_day == Midnight(now)
              start_day == end_day - DayHours * (days - 1)
          IN /\ body' = Some([ op |-> "backlog_trend", days |-> days, now |-> now,
                               from |-> start_day, to |-> end_day,
                               rows |-> TrendRows(0, days, start_day, 0, 0) ])
             /\ resp' = "ok"
             /\ UNCHANGED <<requests, events, calls, worklogs, users>>

NextTrend ==
  \/ \E days \in 1..MaxDays, now \in TrendNows, actor \in Users :
          backlog_trend(days, now, actor)
  \/ Respond

SpecTrend == InitTrend /\ [][NextTrend]_vars

\* ------------------------------------------- _range_for_period, _resolve_range
\* Datetimes count hours from Monday 2024-01-01 00:00 UTC; the first days of
\* January to April 2024, in days from then.
MonthFirstDays == {0, 31, 60, 91}

\* A weekday numbered from Sunday: 1 for Sunday .. 7 for Saturday.
isoweekday_FromSunday(t) == (((t \div DayHours) + 1) % 7) + 1

\* now.isoweekday(): 1 for Monday .. 7 for Sunday.
isoweekday(t) == ((t \div DayHours) % 7) + 1

\* now.replace(day=1, hour=0, minute=0, second=0, microsecond=0)
MonthStart(t) ==
  LET day == t \div DayHours
      first == CHOOSE m \in MonthFirstDays :
                 m <= day /\ \A k \in MonthFirstDays : k <= day => k <= m
  IN DayHours * first

\* _range_for_period(period) at the time now.
range_for_period(period, now) ==
  LET start == IF period = "daily" THEN Midnight(now)
               ELSE IF period = "weekly"
                    THEN Midnight(now - DayHours * (isoweekday(now) - 1))
               ELSE MonthStart(now)
  IN <<start, now>>

\* _resolve_range(period, date_from, date_to) at the time now.
resolve_range(period, date_from, date_to, now) ==
  IF date_from # None /\ date_to # None THEN <<date_from[1], date_to[1]>>
  ELSE IF period \in {"day", "daily"} THEN range_for_period("daily", now)
  ELSE IF period \in {"week", "weekly"} THEN range_for_period("weekly", now)
  ELSE range_for_period("monthly", now)

\* The period KPIs of _summary_payload(period) at the time now.
PeriodSummary(period, now) ==
  LET start == range_for_period(period, now)[1]
      end == range_for_period(period, now)[2]
      new_q(doc) == GteLte(Some(doc.requested_at), start, end)
      finished_q(doc) == doc.status = Finalizada /\ GteLte(doc.completion_date, start, end)
      open_q(doc) == doc.status \in OPEN_STATES
      finals == {tid \in DOMAIN requests : finished_q(requests[tid])}
      hours == [tid \in finals |->
                  requests[tid].completion_date[1] - requests[tid].created_at]
  IN [ op |-> "summary", period |-> period, from |-> start, to |-> end,
       new |-> CountRequests([t \in DOMAIN requests |-> new_q(requests[t])]),
       finished |-> CountRequests([t \in DOMAIN requests |-> finished_q(requests[t])]),
       pending_now |-> CountRequests([t \in DOMAIN requests |-> open_q(requests[t])]),
       avg_cycle_hours |-> IF finals = {} THEN 0
                           ELSE Round1Ratio(SumOf(hours, finals), Cardinality(finals)) ]

\* GET /metrics/kpis?period=..&date_from=..&date_to=.. (support, admin), called
\* at the time now; period is any string, each date is optional. The answer
\* is kept next to the query it answers.
metrics_kpis_at(period, date_from, date_to, now, actor) ==
  /\ CanStart(OneClient)
  /\ IF Role(actor) \notin {"support", "admin"} THEN Raise("Forbidden")
     ELSE LET range == resolve_range(period, date_from, date_to, now)
          IN /\ body' = Some([ op |-> "kpis_at",
                               query |-> [ period |-> period, date_from |-> date_from,
                                           date_to |-> date_to, now |-> now ],
                               answer |-> KpisPayload(range[1], range[2]) ])
             /\ resp' = "ok"
             /\ UNCHANGED <<requests, events, calls, worklogs, users>>

\* GET /reports/summary?period=.. (support, admin), called at the time now:
\* period is a Literal, any other value is refused with 422.
reports_summary_at(period, now, actor) ==
  /\ CanStart(OneClient)
  /\ IF Role(actor) \notin {"support", "admin"} THEN Raise("Forbidden")
     ELSE IF period \notin {"daily", "weekly", "monthly"} THEN Raise("ValidationError")
     ELSE /\ body' = Some(PeriodSummary(period, now))
          /\ resp' = "ok"
          /\ UNCHANGED <<requests, events, calls, worklogs, users>>

\* The times of the calls: Wednesday 10 January at 15h, Thursday 1 February at
\* 0h and Sunday 4 February at 10h.
RangeNows == {231, 744, 826}

\* Period names a client sends, "year" being none the code knows.
PeriodNames == {"day", "daily", "week", "weekly", "month", "monthly", "year"}

\* date_from and date_to of a call: absent, or a time of 10 or 11 January.
RangeDates == {None, Some(216), Some(240)}

\* Requests of January and February: open ones, finalised ones and a rejected
\* one, each closed some hours after its creation.
RangeDocs ==
  {MetricDoc(c, c, None, Pendiente, 0) : c \in {220, 750}}
    \cup {MetricDoc(200, 200, Some(225), Finalizada, 0),
          MetricDoc(100, 100, Some(150), Finalizada, 0),
          MetricDoc(700, 700, Some(800), Finalizada, 0),
          MetricDoc(218, 218, Some(222), Rechazada, 0)}

InitRange ==
  /\ requests \in UNION {[1..n -> RangeDocs] : n \in 0..MaxDocs}
  /\ events = <<>>
  /\ calls = EmptyBag
  /\ resp = "none"
  /\ worklogs = <<>>
  /\ body = None
  /\ users = Users

NextRange ==
  \/ \E period \in PeriodNames, date_from \in RangeDates, date_to \in RangeDates,
        now \in RangeNows, actor \in Users :
          metrics_kpis_at(period, date_from, date_to, now, actor)
  \/ \E period \in PeriodNames, now \in RangeNows, actor \in Users :
          reports_summary_at(period, now, actor)
  \/ Respond

SpecRange == InitRange /\ [][NextRange]_vars

\* The privileged operations next to the status changes, one call at a time:
\* the status changes carry a comment that passes its check and a status
\* that is not null.
NextOps ==
  \/ \E in \in OpsCreateInputs : create_request(in[1], in[2])
  \/ \E tid \in TicketIds, to \in RequestStatus, actor \in Users,
        comment \in RaceComments, link \in Links :
          TransitionStart(OneClient, tid, to, actor, comment, link)
  \/ \E l \in InFlight : TransitionUpdate(l)
  \/ \E l \in InFlight : TransitionEvent(l)
  \/ \E tid \in TicketIds, status \in RequestStatus :
          GenericStart(OneClient, tid, status, UNSET, "soporte1")
  \/ \E l \in InFlight : GenericEvent(l)
  \/ \E l \in InFlight : GenericUpdate(l)
  \/ \E tid \in RequestIds, in \in ClassifyInputs, actor \in AdminActors :
          ClassifyStart(OneClient, tid, in[1], in[2], actor)
  \/ \E l \in InFlight : ClassifyUpdate(l)
  \/ \E tid \in RequestIds, in \in AssignInputs, actor \in AdminActors :
          AssignStart(OneClient, tid, in[1], in[2], actor)
  \/ \E l \in InFlight : AssignUpdate(l)
  \/ \E tid \in RequestIds, rating \in Ratings, actor \in Users :
          FeedbackStart(OneClient, tid, rating, actor)
  \/ \E l \in InFlight : FeedbackUpdate(l)
  \/ Respond

SpecOps == Init /\ [][NextOps]_vars
\* ===================================================================== claims
\* What the claims read off a ticket.
Status(tid) == NormStatus(requests[tid].status)
History(tid) == requests[tid].state_history
EventsOf(tid) == SelectSeq(events, LAMBDA e : e.ticket_id = tid)
Terminal == {Finalizada, Rechazada}

\* The transition table as the specification states it.
ClaimAllowed(s) ==
  CASE s = Pendiente -> {EnProgreso, Rechazada}
    [] s = EnProgreso -> {EnRevision}
    [] s = EnRevision -> {Finalizada, EnProgreso}
    [] OTHER -> {}

\* The actor may call transition with target `to` on the document.
Authorised(doc, to, actor) ==
  /\ Role(actor) \in {"support", "admin"}
  /\ to = EnRevision =>
       actor \in {doc.assigned_to, doc.assigned_by_id} \/ Role(actor) = "admin"

\* A step in which a handler raised.
Failed == resp' \notin {"none", "ok"}

\* The payload texts that are not blank.
NonBlank(texts) == {x \in texts : ~Blank(x)}

\* The calls that entered the bag in this step.
Started ==
  IF BagCardinality(calls') > BagCardinality(calls)
  THEN {l \in BagToSet(calls') : CopiesIn(l, calls') > CopiesIn(l, calls)}
  ELSE {}

\* C1: a transition call by an authorised actor with a non-blank comment and
\* a non-blank evidence link is accepted, writes the target status and
\* answers ok exactly when the target is in the allowed set of the current
\* status; for every other pair it fails with InvalidTransition and the
\* ticket and the event log are unchanged.
C1_TransitionTable ==
  [][ /\ \A tid \in DOMAIN requests, to \in RequestStatus, actor \in Users,
            comment \in NonBlank(Comments), link \in NonBlank(Links) :
          ( /\ Authorised(requests[tid], to, actor)
            /\ TransitionStart(OneClient, tid, to, actor, comment, link) )
          => IF to \in ClaimAllowed(Status(tid))
             THEN /\ resp' = "none"
                  /\ \E l \in BagToSet(calls') :
                       l.op = "transition" /\ l.tid = tid /\ l.to_status = to
             ELSE /\ resp' = "InvalidTransition"
                  /\ requests' = requests /\ events' = events
      /\ \A l \in InFlight :
           /\ TransitionUpdate(l) => requests'[l.tid].status = l.to_status
           /\ TransitionEvent(l) => resp' = "ok" /\ Status(l.tid) = l.to_status
    ]_vars

\* C1 witness: a ticket went through Pendiente, En progreso, En revisión to
\* Finalizada, and a further transition was refused.
C1_Witness ==
  /\ resp = "InvalidTransition"
  /\ 1 \in DOMAIN requests
  /\ requests[1].status = Finalizada
  /\ Len(History(1)) = 4

\* C2: no transition call writes from a stale read: when it writes, its
\* target is allowed from the status stored at that moment and nothing was
\* appended to state_history since it read the ticket.
C2_NoStaleWrite ==
  [][ \A l \in InFlight :
        TransitionUpdate(l) =>
          /\ Len(History(l.tid)) = l.seen
          /\ l.to_status \in ClaimAllowed(Status(l.tid)) ]_vars

\* C3: a successful transition call appends exactly one StateEvent (from the
\* status before the call, to the requested status, by the caller) and
\* exactly one event-log record (ticket, to_status, caller); a failed call
\* appends nothing.
C3_OneEventPerTransition ==
  [][ /\ \A l \in Started :
           l.op = "transition" =>
             /\ requests' = requests /\ events' = events
             /\ resp' = "none"
             /\ l.pc = "update" /\ l.seen = Len(History(l.tid))
      /\ \A l \in InFlight :
           /\ TransitionUpdate(l) =>
                /\ requests'[l.tid].state_history =
                     Append(History(l.tid), StateEvent(Status(l.tid), l.to_status, l.by))
                /\ events' = events
           /\ TransitionEvent(l) =>
                /\ events' = Append(events, StatusEvent(l.tid, l.to_status, l.by))
                /\ requests' = requests
                /\ Len(History(l.tid)) = l.seen + 1
      /\ Failed => requests' = requests /\ events' = events
    ]_vars

\* C3 witness: a transition call has ended ok, with its StateEvent last in
\* the history and its record last in the event log.
C3_Witness ==
  /\ resp = "ok"
  /\ 1 \in DOMAIN requests
  /\ Len(History(1)) = 3
  /\ History(1)[3] = StateEvent(EnProgreso, EnRevision, "soporte1")
  /\ events # <<>>
  /\ events[Len(events)] = StatusEvent(1, EnRevision, "soporte1")

\* C4: once a read returns Finalizada or Rechazada, every later read returns
\* the same status.
C4_TerminalStays ==
  [][ \A tid \in DOMAIN requests :
        Status(tid) \in Terminal => NormStatus(requests'[tid].status) = Status(tid) ]_vars

\* C5: when no call is in flight, every ticket has as many event-log records
\* as StateEvents, the i-th record carrying the i-th event's to_status, the
\* creation event included.
C5_Lockstep ==
  calls = EmptyBag =>
    \A tid \in DOMAIN requests :
      /\ Len(EventsOf(tid)) = Len(History(tid))
      /\ \A i \in 1..Len(History(tid)) :
           i <= Len(EventsOf(tid)) => EventsOf(tid)[i].estado = History(tid)[i].to_status

\* C6: completion_date is set if and only if the status is Finalizada or
\* Rechazada.
C6_CompletionIffTerminal ==
  \A tid \in DOMAIN requests :
    (requests[tid].completion_date # NULL) <=> (Status(tid) \in Terminal)

\* C7: the stored status of every ticket is one of the five canonical values.
C7_StoredStatusValid ==
  \A tid \in DOMAIN requests : requests[tid].status \in VALID_STATUSES

\* C8: an authorised transition call to En progreso on a Finalizada ticket is
\* accepted and its update increments reabierto_count by exactly 1.
C8_ReopenIncrements ==
  [][ \A tid \in DOMAIN requests, actor \in Users, comment \in Comments, link \in Links :
        ( /\ Status(tid) = Finalizada
          /\ Authorised(requests[tid], EnProgreso, actor)
          /\ TransitionStart(OneClient, tid, EnProgreso, actor, comment, link) )
        => /\ resp' = "none"
           /\ \E l \in BagToSet(calls') : l.to_status = EnProgreso /\ l.ops.inc = 1 ]_vars

\* C9: reabierto_count grows by exactly 1 in every step that moves a ticket's
\* status from Finalizada to an open state, and changes in no other step.
C9_ReopenCount ==
  [][ \A tid \in DOMAIN requests :
        requests'[tid].reabierto_count =
          requests[tid].reabierto_count +
            (IF Status(tid) = Finalizada /\ NormStatus(requests'[tid].status) \in OPEN_STATES
             THEN 1 ELSE 0) ]_vars

\* C10: a generic update whose status is present and differs from the current
\* one is accepted exactly when transition with the same target (and the
\* comment and evidence link the payload carries, which are none) is, and
\* then builds the update document transition builds.
C10_GenericLikeTransition ==
  [][ \A tid \in DOMAIN requests, status \in RequestStatus,
         assigned_to \in AssigneeInputs, actor \in {"admin", "soporte1"} :
        ( /\ status # Status(tid)
          /\ GenericStart(OneClient, tid, status, assigned_to, actor) )
        => LET out == TransitionCheck(requests[tid], status, actor, None, None)
           IN IF out = "ok"
              THEN /\ resp' = "none"
                   /\ \E l \in BagToSet(calls') :
                        /\ l.ops.status = status
                        /\ l.ops.push = Some(StateEvent(Status(tid), status, actor))
              ELSE resp' = out ]_vars

\* Every StateEvent after the creation event has its event-log record, in the
\* same order, with the same target status and the same user, and the event
\* log holds nothing else.
Matched(reqs, evs) ==
  \A tid \in DOMAIN reqs :
    LET h == reqs[tid].state_history
        e == SelectSeq(evs, LAMBDA x : x.ticket_id = tid)
    IN /\ Len(e) + 1 = Len(h)
       /\ \A i \in 1..Len(e) :
            /\ e[i].estado = h[i + 1].to_status
            /\ e[i].changed_by = h[i + 1].by_user_id

\* C11: a transition or generic update that is rejected (InvalidTransition,
\* ValidationError, Forbidden, NotFound) writes nothing; and whenever a call
\* has ended, every status change recorded in a ticket has its event-log
\* record and every event-log record its status change.
C11_NoPartialApplication ==
  [][ /\ Failed => requests' = requests /\ events' = events /\ calls' = calls
      /\ calls' = EmptyBag => Matched(requests', events') ]_vars

\* C11 witness: after an accepted status change, a transition to En revisión
\* was rejected for its blank evidence link.
C11_Witness ==
  /\ resp = "ValidationError"
  /\ 1 \in DOMAIN requests
  /\ Status(1) = EnProgreso
  /\ Len(History(1)) = 2
  /\ Len(events) = 1

\* t is s with its leading and trailing whitespace removed.
IsTrimOf(t, s) ==
  /\ t = <<>> \/ (t[1] # " " /\ t[Len(t)] # " ")
  /\ \E i \in 0..Len(s) :
       /\ i + Len(t) <= Len(s)
       /\ t = SubSeq(s, i + 1, i + Len(t))
       /\ \A k \in 1..Len(s) : (k <= i \/ k > i + Len(t)) => s[k] = " "

\* The callers that pass the role check of a status change.
StaffActors == {u \in Users : Role(u) \in {"support", "admin"}}

\* A step in which a handler, called while no other call is in flight, has
\* read the ticket and either raised or kept its locals for the writes.
EntryStep ==
  /\ calls = EmptyBag
  /\ requests' = requests /\ events' = events
  /\ (calls' = EmptyBag) = (resp' \notin {"none", "ok"})

\* C12 as stated: every transition to Rechazada with an absent or blank
\* comment fails with ValidationError and changes nothing.
C12_BlankCommentAlwaysValidationError ==
  [][ \A tid \in DOMAIN requests, actor \in StaffActors,
         comment \in Comments \ NonBlank(Comments), link \in Links :
        TransitionStart(OneClient, tid, Rechazada, actor, comment, link)
        => resp' = "ValidationError" /\ requests' = requests /\ events' = events ]_vars

\* C12: a transition to Rechazada with an absent or blank comment changes
\* nothing and fails, with ValidationError on a Pendiente ticket and with
\* InvalidTransition on any other (the table is checked first); with a
\* non-blank comment on a Pendiente ticket it is accepted and its update
\* stores the trimmed comment as rejection_reason and sets completion_date.
C12_RejectNeedsComment ==
  [][ /\ EntryStep =>
         \A tid \in DOMAIN requests, actor \in StaffActors,
            comment \in Comments, link \in Links :
           TransitionStart(OneClient, tid, Rechazada, actor, comment, link)
           => IF Status(tid) # Pendiente
              THEN resp' = "InvalidTransition" /\ requests' = requests /\ events' = events
              ELSE IF comment \notin NonBlank(Comments)
              THEN resp' = "ValidationError" /\ requests' = requests /\ events' = events
              ELSE /\ resp' = "none"
                   /\ \A l \in Started :
                        /\ l.to_status = Rechazada /\ l.pc = "update"
                        /\ l.ops.set_reason
                        /\ IsTrimOf(l.ops.rejection_reason[1], comment[1])
      /\ \A l \in InFlight :
           (l.op = "transition" /\ l.to_status = Rechazada /\ TransitionUpdate(l))
           => /\ requests'[l.tid].status = Rechazada
              /\ requests'[l.tid].rejection_reason = l.ops.rejection_reason
              /\ requests'[l.tid].completion_date = Now
      /\ \A l \in InFlight :
           (l.op = "transition" /\ l.to_status = Rechazada /\ TransitionEvent(l))
           => resp' = "ok" /\ requests' = requests
    ]_vars

\* C12 witness: a Pendiente ticket was rejected with the comment " m ".
C12_Witness ==
  /\ resp = "ok"
  /\ 1 \in DOMAIN requests
  /\ requests[1].status = Rechazada
  /\ requests[1].rejection_reason = Some(<<"m">>)
  /\ requests[1].completion_date = Now
  /\ History(1)[Len(History(1))] = StateEvent(Pendiente, Rechazada, "soporte1")

\* An optional text that is absent or consists of whitespace only.
IsBlankText(x) == x = None \/ IsTrimOf(<<>>, x[1])

\* C13: a transition to En revisión with an absent or blank evidence link
\* fails and changes nothing; with a non-blank link, by the assignee, the
\* assigner or an admin, on an En progreso ticket it is accepted and its
\* update sets review_evidence to the trimmed link and the caller; the update
\* of a transition to any other status leaves review_evidence as it is.
C13_ReviewNeedsEvidence ==
  [][ /\ EntryStep =>
         \A tid \in DOMAIN requests, actor \in StaffActors,
            comment \in RaceComments, link \in Links :
           TransitionStart(OneClient, tid, EnRevision, actor, comment, link)
           => IF IsBlankText(link)
              THEN Failed /\ requests' = requests /\ events' = events
              ELSE ( Status(tid) = EnProgreso /\ Authorised(requests[tid], EnRevision, actor) )
                   => /\ resp' = "none"
                      /\ \A l \in Started :
                           /\ l.to_status = EnRevision /\ l.pc = "update" /\ l.by = actor
                           /\ l.ops.set_evidence
                           /\ IsTrimOf(l.ops.review_evidence[1].url, link[1])
      /\ \A l \in InFlight :
           TransitionUpdate(l)
           => IF l.to_status = EnRevision
              THEN /\ requests'[l.tid].status = EnRevision
                   /\ requests'[l.tid].review_evidence # None
                   /\ requests'[l.tid].review_evidence[1].url = l.ops.review_evidence[1].url
                   /\ requests'[l.tid].review_evidence[1].by = l.by
              ELSE requests'[l.tid].review_evidence = requests[l.tid].review_evidence
      /\ \A l \in InFlight :
           (l.op = "transition" /\ l.to_status = EnRevision /\ TransitionEvent(l))
           => resp' = "ok" /\ requests' = requests
    ]_vars

\* C13 witness: the assignee sent an En progreso ticket to review with the
\* link "u ", and the ticket was then finalised with the evidence kept.
C13_Witness ==
  /\ resp = "ok"
  /\ 1 \in DOMAIN requests
  /\ requests[1].status = Finalizada
  /\ requests[1].assigned_to = "soporte1"
  /\ requests[1].review_evidence = Some([type |-> "link", url |-> <<"u">>, by |-> "soporte1"])

\* The actor is the ticket's assignee, the user recorded as assigned-by, or
\* an admin.
MaySendToReview(doc, actor) ==
  actor \in {doc.assigned_to, doc.assigned_by_id} \/ Role(actor) = "admin"

\* C14 as stated: every transition to En revisión by an actor who is not the
\* assignee, not the assigner and not an admin fails with Forbidden and
\* changes nothing.
C14_ForbiddenWhenever ==
  [][ EntryStep =>
        \A tid \in DOMAIN requests, actor \in Users,
           comment \in RaceComments, link \in Links :
          ( /\ ~MaySendToReview(requests[tid], actor)
            /\ TransitionStart(OneClient, tid, EnRevision, actor, comment, link) )
          => resp' = "Forbidden" /\ requests' = requests /\ events' = events ]_vars

\* C14: a transition to En revisión by an actor who is not the assignee, not
\* the assigner and not an admin changes nothing and fails: with Forbidden
\* when the actor has no staff role or the ticket is En progreso, whatever
\* the evidence link, and with InvalidTransition when a staff actor calls it
\* on a ticket in any other status (the table is checked first).  No such
\* call is ever accepted.
C14_ReviewNeedsPermission ==
  [][ /\ EntryStep =>
         \A tid \in DOMAIN requests, actor \in Users,
            comment \in RaceComments, link \in Links :
           ( /\ ~MaySendToReview(requests[tid], actor)
             /\ TransitionStart(OneClient, tid, EnRevision, actor, comment, link) )
           => /\ requests' = requests /\ events' = events /\ calls' = calls
              /\ resp' = IF actor \in StaffActors /\ Status(tid) # EnProgreso
                         THEN "InvalidTransition" ELSE "Forbidden"
      /\ \A l \in Started :
           (l.op = "transition" /\ l.to_status = EnRevision)
           => MaySendToReview(requests[l.tid], l.by)
    ]_vars

\* C14 witness: an En progreso ticket that the admin assigned to themselves,
\* and a call answered with Forbidden.
C14_Witness ==
  /\ resp = "Forbidden"
  /\ 1 \in DOMAIN requests
  /\ Status(1) = EnProgreso
  /\ requests[1].assigned_to = "admin"
  /\ requests[1].assigned_by_id = "admin"

C16_FeedbackSetOnce ==
  [][ \A tid \in DOMAIN requests :
        /\ requests[tid].feedback # None
             => requests'[tid].feedback = requests[tid].feedback
        /\ requests'[tid].feedback # None
             => NormStatus(requests'[tid].status) = Finalizada ]_vars

\* C17: in every interleaving, the step that writes a status change writes
\* all of it: the update of a transition (or of a generic update that
\* changes the status) appends its StateEvent, and a step that appends a
\* StateEvent appends one, stores its to_status as the status, sets
\* completion_date exactly for a terminal target and adds the reopening to
\* reabierto_count, so that no state in between exists for a reader to see.
C17_AtomicStatusWrite ==
  [][ /\ \A tid \in DOMAIN requests :
           LET d == requests[tid]
               e == requests'[tid]
               n == Len(d.state_history)
           IN e.state_history # d.state_history
              => /\ Len(e.state_history) = n + 1
                 /\ SubSeq(e.state_history, 1, n) = d.state_history
                 /\ e.status = e.state_history[n + 1].to_status
                 /\ e.completion_date =
                      IF e.status \in Terminal THEN Now ELSE d.completion_date
                 /\ e.reabierto_count = d.reabierto_count +
                      (IF e.state_history[n + 1].from_status = Finalizada
                          /\ e.status \in OPEN_STATES THEN 1 ELSE 0)
      /\ \A l \in InFlight :
           ( /\ l.op \in {"transition", "generic"}
             /\ l.ops.push # None
             /\ TransitionUpdate(l) \/ GenericUpdate(l) )
           => /\ requests'[l.tid].status = l.to_status
              /\ requests'[l.tid].state_history =
                   Append(requests[l.tid].state_history, l.ops.push[1])
    ]_vars

\* C17 witness: while another call is in flight, a transition has written the
\* ticket and not yet the event log: the ticket shows the new status with its
\* StateEvent last in state_history.
C17_Witness ==
  /\ BagCardinality(calls) = 2
  /\ \E l \in InFlight :
       /\ l.op = "transition" /\ l.pc = "event" /\ l.to_status = EnRevision
       /\ requests[l.tid].status = EnRevision
       /\ History(l.tid)[Len(History(l.tid))] = l.ops.push[1]
       /\ Len(EventsOf(l.tid)) + 1 < Len(History(l.tid))

\* The last element of a non-empty sequence.
Last(q) == q[Len(q)]

\* C18: a transition call repeated right after it succeeded (same ticket,
\* same target, same caller) fails with InvalidTransition and appends
\* nothing; the update of a classify or assign call repeated on its own
\* result accepts the call again and leaves the ticket as it is.
C18_RetryIsSafe ==
  [][ /\ EntryStep =>
         \A tid \in DOMAIN requests, to \in RequestStatus, actor \in StaffActors,
            comment \in RaceComments, link \in Links :
           ( /\ Len(History(tid)) > 1
             /\ Last(History(tid)).to_status = to
             /\ Last(History(tid)).by_user_id = actor
             /\ requests[tid].status = to
             /\ TransitionStart(OneClient, tid, to, actor, comment, link) )
           => resp' = "InvalidTransition" /\ calls' = calls
      /\ \A l \in InFlight :
           ( /\ l.op = "classify"
             /\ requests[l.tid].level = Some(l.level)
             /\ requests[l.tid].priority = l.priority
             /\ ClassifyUpdate(l) )
           => requests' = requests /\ events' = events /\ resp' = "ok"
      /\ \A l \in InFlight :
           ( /\ l.op = "assign"
             /\ requests[l.tid].assigned_to = l.target
             /\ requests[l.tid].assigned_by_id = l.by
             /\ requests[l.tid].estimated_hours = l.hours
             /\ AssignUpdate(l) )
           => requests' = requests /\ events' = events /\ resp' = "ok"
      /\ \A l \in InFlight :
           (l.op = "classify" /\ ClassifyUpdate(l))
           => classify_set(requests'[l.tid], l.level, l.priority) = requests'[l.tid]
      /\ \A l \in InFlight :
           (l.op = "assign" /\ AssignUpdate(l))
           => assign_set(requests'[l.tid], l.target, l.hours, l.by) = requests'[l.tid]
    ]_vars

\* C18 witness: a ticket classified (2, Baja) and assigned to soporte1 by the
\* admin, with the same assign call accepted once more and about to write.
C18_Witness ==
  /\ 1 \in DOMAIN requests
  /\ requests[1].level = Some(2) /\ requests[1].priority = "Baja"
  /\ Len(History(1)) = 2
  /\ \E l \in InFlight :
       /\ l.op = "assign" /\ l.pc = "update" /\ l.tid = 1
       /\ requests[1].assigned_to = l.target /\ l.target = "soporte1"
       /\ requests[1].assigned_by_id = l.by
       /\ requests[1].estimated_hours = l.hours

\* C19: a create_request call, whatever the caller's role and the assignee
\* asked for, either fails and writes nothing or inserts one ticket with
\* status Pendiente, no completion_date, no feedback, a reabierto_count of 0
\* and a state_history of the single StateEvent (None, Pendiente, caller),
\* and writes nothing else.
C19_CreatedPending ==
  [][ \A actor \in Users, assigned_to \in {NULL, "soporte1", Nobody} :
        create_request(actor, assigned_to)
        => \/ Failed /\ requests' = requests /\ events' = events
           \/ /\ resp' = "ok"
              /\ Len(requests') = Len(requests) + 1
              /\ SubSeq(requests', 1, Len(requests)) = requests
              /\ LET d == requests'[Len(requests')]
                 IN /\ d.status = Pendiente
                    /\ d.completion_date = NULL
                    /\ d.feedback = None
                    /\ d.reabierto_count = 0
                    /\ d.requester_id = actor
                    /\ d.state_history = <<StateEvent(NULL, Pendiente, actor)>> ]_vars

\* C19 witness: a ticket a support user has just created, asking for an
\* assignee.
C19_Witness ==
  /\ resp = "ok"
  /\ Len(requests) = 1
  /\ requests[1].requester_id = "soporte1"
  /\ requests[1].status = Pendiente
  /\ requests[1].state_history = <<StateEvent(NULL, Pendiente, "soporte1")>>
  /\ events = <<>>

\* p is a prefix of q.
IsPrefix(p, q) == Len(p) <= Len(q) /\ SubSeq(q, 1, Len(p)) = p

\* C20: every step of every operation keeps each ticket, with its
\* state_history as a prefix of the new one, and keeps the event log as a
\* prefix of the new one.
C20_AppendOnly ==
  [][ /\ IsPrefix(events, events')
      /\ \A tid \in DOMAIN requests :
           /\ tid \in DOMAIN requests'
           /\ IsPrefix(requests[tid].state_history, requests'[tid].state_history) ]_vars

\* C20 witness: a ticket that was classified, assigned, moved to Finalizada
\* and given feedback, with its four StateEvents and three event-log records.
C20_Witness ==
  /\ 1 \in DOMAIN requests
  /\ Len(History(1)) = 4
  /\ History(1)[1] = StateEvent(NULL, Pendiente, "facturacion1")
  /\ Last(History(1)).to_status = Finalizada
  /\ Len(events) = 3
  /\ requests[1].feedback # None
  /\ requests[1].level # None
  /\ requests[1].assigned_by_id = "admin"

\* C21: a classify call by a non-admin is refused, one on a missing ticket
\* fails with NotFound, and neither writes anything; the update of an
\* accepted call, also between the steps of a transition on the same ticket,
\* writes level and priority and leaves status, state_history,
\* completion_date, reabierto_count, assignee, feedback and the event log as
\* they are.
C21_ClassifyFrame ==
  [][ /\ \A tid \in RequestIds, in \in ClassifyInputs, actor \in Users :
           ClassifyStart(TwoClients, tid, in[1], in[2], actor)
           => /\ requests' = requests /\ events' = events
              /\ resp' = IF Role(actor) # "admin" THEN "Forbidden"
                         ELSE IF tid \notin DOMAIN requests THEN "NotFound"
                         ELSE "none"
      /\ \A l \in InFlight :
           (l.op = "classify" /\ ClassifyUpdate(l))
           => LET d == requests[l.tid]
                  e == requests'[l.tid]
              IN /\ e.level = Some(l.level) /\ e.priority = l.priority
                 /\ e.status = d.status
                 /\ e.state_history = d.state_history
                 /\ e.completion_date = d.completion_date
                 /\ e.reabierto_count = d.reabierto_count
                 /\ e.assigned_to = d.assigned_to
                 /\ e.feedback = d.feedback
                 /\ e = [d EXCEPT !.level = e.level, !.priority = e.priority]
                 /\ \A tid \in DOMAIN requests : tid # l.tid => requests'[tid] = requests[tid]
                 /\ events' = events
                 /\ resp' = "ok"
    ]_vars

\* C21 witness: a classify call has written (2, Baja) between the ticket
\* update and the event insert of a transition to En revisión.
C21_Witness ==
  /\ resp = "ok"
  /\ 1 \in DOMAIN requests
  /\ requests[1].level = Some(2) /\ requests[1].priority = "Baja"
  /\ requests[1].status = EnRevision
  /\ Len(History(1)) = 3
  /\ Len(events) = 1
  /\ \E l \in InFlight : l.op = "transition" /\ l.pc = "event" /\ l.to_status = EnRevision

\* An accepted assign call's update: assignee id and name are the target's,
\* assigned-by is the actor, estimated_hours is the payload's, and status,
\* state_history, completion_date, reabierto_count and the event log are as
\* they were.
AssignFrame ==
  \A l \in InFlight :
    (l.op = "assign" /\ AssignUpdate(l))
    => LET d == requests[l.tid]
           e == requests'[l.tid]
       IN /\ UserExists(l.target)
          /\ e.assigned_to = l.target
          /\ e.assigned_to_name = FullName(l.target)
          /\ e.assigned_by_id = l.by
          /\ e.estimated_hours = l.hours
          /\ e.status = d.status
          /\ e.state_history = d.state_history
          /\ e.completion_date = d.completion_date
          /\ e.reabierto_count = d.reabierto_count
          /\ e = [d EXCEPT !.assigned_to = e.assigned_to,
                           !.assigned_to_name = e.assigned_to_name,
                           !.assigned_by_id = e.assigned_by_id,
                           !.estimated_hours = e.estimated_hours]
          /\ events' = events
          /\ resp' = "ok"

\* The response of an admin's assign call on an existing ticket whose target
\* user does not exist is err, and the ticket is unchanged.
AssignMissingTarget(err) ==
  \A tid \in TicketIds, in \in AssignInputs, actor \in AdminActors :
    ( /\ AssignStart(OneClient, tid, in[1], in[2], actor)
      /\ Role(actor) = "admin" /\ tid \in DOMAIN requests
      /\ ~UserExists(AssignTarget(in[1], actor)) )
    => resp' = err /\ requests' = requests /\ events' = events

CompletedLabels == {"Completada", "Completado", "completada", "completado"}
CancelledLabels == {"Cancelada", "Cancelado"}
Canonical == {Pendiente, EnProgreso, EnRevision, Finalizada, Rechazada}

\* C23: the status a read materialises is one of the five canonical ones: a
\* canonical status as stored, Finalizada for the Completed labels, Rechazada
\* for the Cancelled labels, the canonical spelling for "En Progreso" and
\* "En Revisión", Pendiente for a missing, null or unrecognised status; and
\* normalising the result again changes nothing. The items of a listing carry
\* that status.
C23_Normalization ==
  \A tid \in DOMAIN requests :
    LET st == requests[tid].status
        n == ToRequest(requests[tid]).status
    IN /\ n \in Canonical
       /\ st \in Canonical => n = st
       /\ st \in CompletedLabels => n = Finalizada
       /\ st \in CancelledLabels => n = Rechazada
       /\ st = "En Progreso" => n = EnProgreso
       /\ st = "En Revisión" => n = EnRevision
       /\ st \in {NULL, UNSET, "pendiente", "Cerrada"} => n = Pendiente
       /\ ToRequest(ToRequest(requests[tid])) = ToRequest(requests[tid])
       /\ (body # None /\ body[1].op = "list" /\ tid \in DOMAIN body[1].items)
          => body[1].items[tid].status = n

\* C23 witness: a listing returned a ticket stored as "Completada" with the
\* status Finalizada.
C23_Witness ==
  /\ body # None /\ body[1].op = "list"
  /\ requests[1].status = "Completada"
  /\ 1 \in DOMAIN body[1].items
  /\ body[1].items[1].status = Finalizada

\* The ticket is stored with the legacy label "Completada".
StoredCompletada(tid) == tid \in DOMAIN requests /\ requests[tid].status = "Completada"

\* Transition, generic update and feedback treat a "Completada" ticket as
\* Finalizada: no status change is admitted, the feedback of its requester is.
LegacyWritesNormalize ==
  \A tid \in TicketIds : StoredCompletada(tid) =>
    /\ \A to \in RequestStatus, comment \in RaceComments, link \in RaceLinks :
         TransitionStart(OneClient, tid, to, "admin", comment, link)
         => resp' = "InvalidTransition"
    /\ \A status \in RequestStatus \ {Finalizada} :
         GenericStart(OneClient, tid, status, UNSET, "soporte1")
         => resp' = "InvalidTransition"
    /\ \A rating \in Ratings, actor \in {"admin", requests[tid].requester_id} :
         (FeedbackStart(OneClient, tid, rating, actor) /\ requests[tid].feedback = None)
         => resp' = "none" /\ BagCardinality(calls') = 1

\* A listing treats a "Completada" ticket as Finalizada: it is returned,
\* with that status, exactly by the listings without a status filter or with
\* the filter Finalizada.
LegacyListNormalizes ==
  \A tid \in TicketIds :
    (StoredCompletada(tid) /\ body' # None /\ body'[1].op = "list"
       /\ body'[1].by = "admin")
    => /\ tid \in DOMAIN body'[1].items <=> body'[1].status \in {NULL, Finalizada}
       /\ tid \in DOMAIN body'[1].items => body'[1].items[tid].status = Finalizada

\* The summary counts a "Completada" ticket as finished in the period and not
\* as pending, overall and for its technician.
LegacySummaryNormalizes ==
  \A tid \in TicketIds :
    (StoredCompletada(tid) /\ body' # None /\ body'[1].op = "summary")
    => /\ body'[1].finished = 1
       /\ body'[1].pending_now = 0
       /\ \A k \in DOMAIN body'[1].productivity_by_tech :
            /\ body'[1].productivity_by_tech[k].pending_now = 0
            /\ body'[1].productivity_by_tech[k].attended_period = 1

\* C24: every operation that reads a ticket stored as "Completada" (listing,
\* transition, generic update, feedback, and the counts of the summary) treats
\* it as Finalizada.
C24_EveryReadNormalizes ==
  [][LegacyWritesNormalize /\ LegacyListNormalizes /\ LegacySummaryNormalizes]_vars

TimeByStateAnswered == body # None /\ body[1].op = "time_by_state"

\* The reported tenths of an hour of a state, 0 for a state without a key.
Reported(st) ==
  IF st \in DOMAIN body[1].hours_by_state THEN body[1].hours_by_state[st] ELSE 0

\* The time at which the residence begun by record i ends: the time of the
\* ticket's next record, or end when i is its last.
ResidenceEnd(i, end) ==
  LET later == {j \in DOMAIN events : j > i /\ events[j].ticket_id = events[i].ticket_id}
  IN IF later = {} THEN end
     ELSE events[CHOOSE j \in later : \A k \in later : j <= k].changed_at

\* Every ticket's records have strictly increasing times, none after end.
IncreasingUpTo(end) ==
  /\ \A i \in DOMAIN events : events[i].changed_at <= end
  /\ \A i, j \in DOMAIN events :
       (i < j /\ events[i].ticket_id = events[j].ticket_id)
       => events[i].changed_at < events[j].changed_at

\* The quarters of an hour all tickets spent in st up to end.
QuartersIn(st, end) ==
  SumOf([i \in DOMAIN events |-> ResidenceEnd(i, end) - events[i].changed_at],
        {i \in DOMAIN events : events[i].estado = st})

\* C26: when every ticket's records have strictly increasing times at or
\* before window_end, time_by_state reports for each state the sum, over all
\* tickets, of the time from each record of that state to the ticket's next
\* record (to window_end for the last one), rounded to one decimal, and no
\* entry for a state without positive time; for Pendiente@0h, En progreso@2h,
\* Finalizada@5h and window_end 7h it reports 2.0, 3.0 and 2.0 hours.
C26_TimeByState ==
  TimeByStateAnswered =>
    /\ IncreasingUpTo(body[1].to) =>
         \A st \in EventStates :
           LET q == QuartersIn(st, body[1].to)
           IN /\ 5 * q - 2 * Reported(st) \in -1..1
              /\ st \in DOMAIN body[1].hours_by_state <=> q > 0
    /\ ( /\ events = <<TimedEvent(1, Pendiente, 0), TimedEvent(1, EnProgreso, 8),
                       TimedEvent(1, Finalizada, 20)>>
         /\ body[1].to = 28 )
       => body[1].hours_by_state =
            [st \in EventStates |->
               CASE st = Pendiente -> 20 [] st = EnProgreso -> 30 [] OTHER -> 20]

\* C26 witness: the example's three records and window end have been answered.
C26_Witness ==
  /\ TimeByStateAnswered
  /\ events = <<TimedEvent(1, Pendiente, 0), TimedEvent(1, EnProgreso, 8),
                TimedEvent(1, Finalizada, 20)>>
  /\ body[1].to = 28
  /\ Reported(Pendiente) = 20 /\ Reported(EnProgreso) = 30 /\ Reported(Finalizada) = 20

\* The first record of a ticket, and the tickets with a record up to end.
FirstTime(tid) ==
  LET ts == {events[i].changed_at : i \in {j \in DOMAIN events : events[j].ticket_id = tid}}
  IN CHOOSE t \in ts : \A u \in ts : t <= u

\* C27: records later than window_end contribute no hours: the hours reported
\* over all states do not exceed, summed over the tickets with a record up to
\* window_end, window_end minus the time of the ticket's first record (up to
\* the rounding of each state's entry).
C27_NothingAfterWindowEnd ==
  TimeByStateAnswered =>
    LET end == body[1].to
        tids == {events[i].ticket_id :
                   i \in {j \in DOMAIN events : events[j].changed_at <= end}}
        span == [tid \in tids |-> end - FirstTime(tid)]
        hbs == body[1].hours_by_state
    IN 2 * SumOf(hbs, DOMAIN hbs) <= 5 * SumOf(span, tids) + Cardinality(DOMAIN hbs)

\* t lies in the window [start, end).
InWindow(t, start, end) == start <= t /\ t < end

KpisAnswered == body # None /\ body[1].op = "kpis"
ReworkAnswered == body # None /\ body[1].op = "rework"

\* The requests created, and those completed, in the window of the answer.
CreatedInWindow ==
  {tid \in DOMAIN requests :
     InWindow(requests[tid].created_at, body[1].from, body[1].to)}
CompletedInWindow ==
  {tid \in DOMAIN requests :
     /\ requests[tid].completion_date # None
     /\ InWindow(requests[tid].completion_date[1], body[1].from, body[1].to)}

\* C28: kpis over [start, end) reports as received the requests created at a
\* time t with start <= t < end, as resolved those completed at such a time,
\* and as backlog the requests now in Pendiente, En progreso or En revisión;
\* a request created or completed exactly at end is not counted.
C28_KpisWindow ==
  KpisAnswered =>
    /\ body[1].recibidos = Cardinality(CreatedInWindow)
    /\ body[1].resueltos = Cardinality(CompletedInWindow)
    /\ body[1].backlog =
         Cardinality({tid \in DOMAIN requests :
                        NormStatus(requests[tid].status) \in {Pendiente, EnProgreso, EnRevision}})

\* C29: kpis reports as average resolution time the mean, over the requests
\* completed in the window, of completion_date - created_at in hours, rounded
\* to one decimal, and 0.0 when there is none; for exactly two completions
\* with deltas of 2h and 4h it reports 3.0.
C29_KpisAverage ==
  KpisAnswered =>
    LET delta == [tid \in CompletedInWindow |->
                    requests[tid].completion_date[1] - requests[tid].created_at]
        n == Cardinality(CompletedInWindow)
        sum == SumOf(delta, CompletedInWindow)
        d == 10 * sum - n * body[1].ttr_promedio
    IN /\ n = 0 => body[1].ttr_promedio = 0
       /\ n > 0 => (2 * d <= n /\ -n <= 2 * d)
       /\ (n = 2 /\ {delta[tid] : tid \in CompletedInWindow} = {2, 4})
          => body[1].ttr_promedio = 30

\* C30: rework_rate reports as total the requests created in the window, as
\* reworked count those of them with reabierto_count > 0 and as percentage
\* 100 * reworked / total, all three 0 when total is 0; for 10 requests
\* created in the window, 3 of them reworked, it reports 10, 3 and 30.0.
C30_ReworkRate ==
  ReworkAnswered =>
    LET reworked == {tid \in CreatedInWindow : requests[tid].reabierto_count > 0}
        total == Cardinality(CreatedInWindow)
        pct == body[1].pct
    IN /\ body[1].total = total
       /\ body[1].con_retrabajo = Cardinality(reworked)
       /\ pct[1] * total = 100 * Cardinality(reworked) * pct[2]
       /\ total = 0 => pct[1] = 0
       /\ (total = 10 /\ Cardinality(reworked) = 3)
          => (body[1].total = 10 /\ body[1].con_retrabajo = 3 /\ pct[1] = 30 * pct[2])

\* The state_history of a ticket is a chain from null to the status s.
ChainTo(h, s) ==
  /\ Len(h) >= 1
  /\ h[1].from_status = NULL
  /\ \A i \in 2..Len(h) : h[i].from_status = h[i - 1].to_status
  /\ h[Len(h)].to_status = s

\* C36: in every reachable state, every ticket's state_history is a chain
\* that ends at the ticket's current status: the first event has from_status
\* null, every later event starts where the one before it ended, and the last
\* event ends at the current status.
C36_HistoryChain ==
  \A tid \in DOMAIN requests : ChainTo(History(tid), Status(tid))

\* C37: in every reachable state, every ticket whose status is Rechazada has
\* a rejection_reason that is set and not blank.
C37_RejectedHasReason ==
  \A tid \in DOMAIN requests :
    Status(tid) = Rechazada => ~IsBlankText(requests[tid].rejection_reason)

\* C38: in every reachable state, every ticket whose status is En revisión or
\* Finalizada has review_evidence set, with a url that is not blank.
C38_ReviewedHasEvidence ==
  \A tid \in DOMAIN requests :
    Status(tid) \in {EnRevision, Finalizada}
    => /\ requests[tid].review_evidence # None
       /\ ~IsBlankText(Some(requests[tid].review_evidence[1].url))

\* C39: in every step, a ticket's status becomes Finalizada only from
\* En revisión, En revisión only from En progreso, Rechazada only from
\* Pendiente, and never becomes Pendiente from another status.
C39_WorkflowOrder ==
  [][ \A tid \in DOMAIN requests :
        LET old == Status(tid)
            new == NormStatus(requests'[tid].status)
        IN new # old =>
             /\ new = Finalizada => old = EnRevision
             /\ new = EnRevision => old = EnProgreso
             /\ new = Rechazada => old = Pendiente
             /\ new # Pendiente ]_vars

\* C40: starting with at least one admin user, after any sequence and any
\* interleaving of delete_user calls at least one admin user still exists.
C40_AnAdminRemains ==
  \E u \in users : Role(u) = "admin"

TrendAnswered == body # None /\ body[1].op = "backlog_trend"

\* The rows of a backlog_trend answer are one per day, for consecutive days,
\* oldest first and ending with the day of the call; row i carries the number
\* of tickets whose time under at(_) falls on its day, the number completed
\* on its day, and the floor at 0 of the difference of the sums so far.
TrendRowsAre(at) ==
  LET b == body[1]
      n == Len(b.rows)
      on(t, i) == b.rows[i].date <= t /\ t < b.rows[i].date + 24
      new(i) == Cardinality({tid \in DOMAIN requests : on(at[tid], i)})
      closed(i) == Cardinality({tid \in DOMAIN requests :
                                  /\ requests[tid].completion_date # None
                                  /\ on(requests[tid].completion_date[1], i)})
      sumnew == [i \in 1..n |-> Cardinality({tid \in DOMAIN requests :
                                  \E j \in 1..i : on(at[tid], j)})]
      sumclosed == [i \in 1..n |-> Cardinality({tid \in DOMAIN requests :
                                     /\ requests[tid].completion_date # None
                                     /\ \E j \in 1..i : on(requests[tid].completion_date[1], j)})]
  IN /\ n = b.days
     /\ \A i \in 1..(n - 1) : b.rows[i + 1].date = b.rows[i].date + 24
     /\ b.rows[n].date <= b.now /\ b.now < b.rows[n].date + 24
     /\ b.rows[n].date % 24 = 0
     /\ \A i \in 1..n :
          /\ b.rows[i].new = new(i)
          /\ b.rows[i].closed = closed(i)
          /\ b.rows[i].backlog >= 0
          /\ b.rows[i].backlog =
               (IF sumnew[i] > sumclosed[i] THEN sumnew[i] - sumclosed[i] ELSE 0)

\* What the rows do carry: as new, the tickets whose requested_at (the time
\* of creation unless the requester gave another) falls on the row's day.
TrendRowsByRequestDate ==
  TrendAnswered => TrendRowsAre([tid \in DOMAIN requests |-> requests[tid].requested_at])

\* C31: backlog_trend(days) returns exactly days rows for consecutive
\* calendar days, oldest first and ending with today; row i carries the number
\* of tickets created on day i, the number completed on day i, and backlog =
\* max(sum of new over rows 0..i - sum of closed over rows 0..i, 0) >= 0.
C31_BacklogTrend ==
  TrendAnswered => TrendRowsAre([tid \in DOMAIN requests |-> requests[tid].created_at])

KindOfPeriod(period) ==
  IF period \in {"day", "daily"} THEN "day"
  ELSE IF period \in {"week", "weekly"} THEN "week"
  ELSE IF period \in {"month", "monthly"} THEN "month"
  ELSE "unknown"

\* start is the midnight that opens the day, the week (on its Monday) or the
\* month (on its day 1) the time now lies in; 2024-01-01, hour 0, is a Monday.
OpensPeriodOf(kind, start, now) ==
  LET day == start \div 24
      today == now \div 24
  IN /\ start % 24 = 0
     /\ start <= now
     /\ kind = "day" => day = today
     /\ kind = "week" => day % 7 = 0 /\ today - day < 7
     /\ kind = "month" => /\ day \in {0, 31, 60, 91}
                          /\ \A m \in {0, 31, 60, 91} : ~(day < m /\ m <= today)

\* C35: a named period resolves to the window that ends at now and starts at
\* midnight of the same day (day), at midnight of the most recent Monday on or
\* before now (week) or at midnight of day 1 of now's month (month), so that
\* start <= now; when both explicit bounds are given, the window is exactly
\* those bounds.
C35_NamedPeriods ==
  /\ (body # None /\ body[1].op = "kpis_at") =>
       LET q == body[1].query
           a == body[1].answer
       IN /\ (q.date_from # None /\ q.date_to # None) =>
                a.from = q.date_from[1] /\ a.to = q.date_to[1]
          /\ (q.date_from = None /\ q.date_to = None /\ KindOfPeriod(q.period) # "unknown") =>
                a.to = q.now /\ OpensPeriodOf(KindOfPeriod(q.period), a.from, q.now)
  /\ (body # None /\ body[1].op = "summary") =>
       OpensPeriodOf(KindOfPeriod(body[1].period), body[1].from, body[1].to)

\* C35 witness: a weekly summary was answered on a Sunday, its window opening
\* six days earlier, in the month before.
C35_Witness ==
  /\ body # None /\ body[1].op = "summary" /\ body[1].period = "weekly"
  /\ resp = "ok"
  /\ body[1].to - body[1].from > 6 * 24
  /\ body[1].from < MonthStart(body[1].to)

\* A query names no window when its period is unknown and it gives no bounds,
\* when it gives one bound without the other, or when its bounds are reversed.
MalformedWindow(q) ==
  \/ q.date_from = None /\ q.date_to = None /\ KindOfPeriod(q.period) = "unknown"
  \/ (q.date_from = None) # (q.date_to = None)
  \/ q.date_from # None /\ q.date_to # None /\ q.date_from[1] > q.date_to[1]

\* C34: a metrics query with a malformed window (an unknown period name, only
\* one of from/to, from later than to) fails with ValidationError and gets no
\* answer; a well-formed one is answered, with zero counts and a 0.0 average
\* when there is no data.
C34_MalformedWindowRefused ==
  (body # None /\ body[1].op = "kpis_at") =>
     /\ ~MalformedWindow(body[1].query)
     /\ requests = <<>> =>
          /\ body[1].answer.recibidos = 0 /\ body[1].answer.resueltos = 0
          /\ body[1].answer.backlog = 0 /\ body[1].answer.ttr_promedio = 0

SummaryAnswered == body # None /\ body[1].op = "summary"

SummaryAgreesWithKpis ==
  LET k == KpisPayload(body[1].from, body[1].to)
  IN /\ body[1].new = k.recibidos
     /\ body[1].finished = k.resueltos
     /\ body[1].pending_now = k.backlog
     /\ body[1].avg_cycle_hours = k.ttr_promedio

\* C33: the new, finished, pending_now and average cycle hours of
\* summary(period) equal the received, resolved, backlog and average
\* resolution time of kpis over the same data and the same window, also when
\* tickets were rejected inside the window.
C33_SummaryAgreesWithKpis == SummaryAnswered => SummaryAgreesWithKpis

\* The answers a time_by_state call for the window end may give on the stored
\* Event Log.
TimeByStateAnswers(end) ==
  {HoursByState(evs, end) : evs \in EventsSorted(EventsSelected(end))}

\* No ticket has two records of different states with the same timestamp.
NoTiedRecords ==
  \A i, j \in DOMAIN events :
    (events[i].ticket_id = events[j].ticket_id /\ events[i].changed_at = events[j].changed_at)
      => events[i].estado = events[j].estado

\* Without tied records a time_by_state call has one answer.
TimeByStateOneAnswer ==
  NoTiedRecords => \A end \in WindowEnds : Cardinality(TimeByStateAnswers(end)) = 1

\* C32: a metrics operation is read-only and idempotent: it leaves the
\* Requests, Event Log, Worklog and User collections unchanged, and two calls
\* with the same window on the same stored data return the same result, that
\* is, the stored data and the window admit one answer.
C32_ReadOnlyIdempotent ==
  [][ /\ UNCHANGED <<requests, events, worklogs, users>>
      /\ (body' # None /\ body'[1].op = "time_by_state") =>
           TimeByStateAnswers(body'[1].to) = {body'[1].hours_by_state} ]_vars
=============================================================================
